---- MODULE Spec2Model ----
(***************************************************************************)
(* Model of the real-time pipeline of the voice assistant: Assistant      *)
(* (src/main.py), AudioCapture (src/audio/capture.py), WakeWordEngine     *)
(* (src/engines/wakeword.py) and VAD (src/audio/vad.py).                  *)
(*                                                                         *)
(* Threads: thread 0 is the Python main thread (run / run_once and the    *)
(* signal handler, which runs nested on the main thread); thread s >= 1   *)
(* is the PortAudio callback thread of the s-th input stream opened by    *)
(* AudioCapture.start.  Every thread has a call stack of statement        *)
(* labels; the head is the statement it executes next.                    *)
(*                                                                         *)
(* Sample counts are scaled down: the VAD frame is FrameSize samples      *)
(* (480 in the program), a chunk is chunk_size samples (512 by default).  *)
(***************************************************************************)
EXTENDS Integers, Sequences, FiniteSets, TLC

\* ---------------------------------------------------------------- bounds
FrameSize == 2          \* VAD.frame_size, scaled
SilenceThreshold == 1   \* VAD.silence_threshold, scaled
WWFrameLength == 2      \* detector.frame_length, scaled
MaxStreams == 2         \* input streams opened during one run
MaxChunks == 2          \* chunks PortAudio delivers to the stream callbacks
MaxReads == 2           \* successful blocking reads of the whole run
MaxFrames == 3          \* VAD frames classified in one listening episode
MaxSignals == 1         \* SIGINT / SIGTERM deliveries
MaxFailures == 1        \* device failures (open or start_stream)
MaxObservers == 2       \* observers a caller of AudioCapture registers
MaxCalls == 6           \* detect_speech_end calls on one VAD
MaxSegFrames == 5       \* full frames of a stream given to get_speech_frames
BufferSize == 4         \* ring buffer capacity, scaled
MaxReconfigs == 2       \* add / remove / reload calls on one detector
MaxProcess == 2         \* process calls on one detector

Threads == 0..MaxStreams
Streams == 1..MaxStreams
\* audio.chunk_size is configuration: one value that is not a multiple of
\* the VAD frame (as the default 512 vs 480) and one that is
ChunkSizes == {FrameSize + 1, 2 * FrameSize}

VARIABLES
  chunk_size,     \* AudioCapture.chunk_size
  mode,           \* "run" (Assistant.run) or "once" (Assistant.run_once)
  running,        \* Assistant.running
  listening,      \* Assistant.listening
  is_running,     \* AudioCapture.is_running
  stream,         \* AudioCapture.stream: 0 is None, else the stream id
  sstate,         \* per stream: "none", "opened", "active", "stopped", "closed"
  nstreams,       \* streams opened so far
  callbacks,      \* AudioCapture.callbacks: entry labels of the observers
  buffer,         \* AudioCapture.buffer (deque with maxlen)
  ww_is_running,  \* WakeWordEngine.is_running
  stack,          \* per thread: call stack of statement labels
  loc,            \* per thread: local variables of the frames on its stack
  signals, failures, nreads, delivered,   \* bounded counters of the environment
  ep,             \* per thread: history of its current listening episode
  hist,           \* history of the whole run
  vad,            \* the VAD object, its constructor arguments and its callers
  det,            \* a wake-word detector, its callers and its clock
  wwe             \* the arguments of WakeWordEngine.__init__ and its choice

\* what no step of the pipeline changes: the configuration, the VAD object,
\* of which the pipeline calls is_speech alone, and the wake-word detector,
\* whose verdicts the pipeline takes as given
cfgv == <<chunk_size, mode, vad, det, wwe>>
asst == <<running, listening>>
capv == <<is_running, stream, sstate, nstreams, callbacks, buffer>>
envv == <<signals, failures, nreads, delivered>>
vars == <<chunk_size, mode, running, listening, is_running, stream, sstate,
          nstreams, callbacks, buffer, ww_is_running, stack, loc,
          signals, failures, nreads, delivered, ep, hist, vad, det, wwe>>

\* ------------------------------------------------------- call stack helpers
Top(t) == IF stack[t] = <<>> THEN "idle" ELSE Head(stack[t])

\* The process lives until the main thread returns from main() or dies
alive == Top(0) \notin {"exit", "crashed"}

\* thread t of the live process is about to execute statement l
At(t, l) == alive /\ Top(t) = l
Goto(t, l) == stack' = [stack EXCEPT ![t] = <<l>> \o Tail(@)]
Call(t, callee, ret) == stack' = [stack EXCEPT ![t] = <<callee, ret>> \o Tail(@)]
Return(t) == stack' = [stack EXCEPT ![t] = Tail(@)]

\* the catch labels were _audio_callback to call its observers unguarded
CatchLabelsUnguardedObservers == {"ww_next", "cl_exc"}

\* Return labels that sit inside a try/except Exception block of the caller
CatchLabels == {"ww_next", "ac_next", "cl_exc"}

RECURSIVE Unwind(_)
Unwind(s) ==
  IF s = <<>> THEN <<"crashed">>
  ELSE IF Head(s) \in CatchLabels THEN s
  ELSE Unwind(Tail(s))

\* An exception raised by the statement at the head of t's stack
Raise(t) == stack' = [stack EXCEPT ![t] = Unwind(Tail(@))]

OnStack(t, labels) == \E k \in 1..Len(stack[t]) : stack[t][k] \in labels

\* ------------------------------------------------------------ pure helpers
Min(a, b) == IF a < b THEN a ELSE b

\* samples k of the n-th chunk of a source, numbered so that every sample
\* of a source is distinct and increasing in capture order
Chunk(n, size) == [k \in 1..size |-> (n - 1) * size + k]

\* audio[i:i+chunk_size] with a 0-based start i
Slice(a, i, n) == SubSeq(a, i + 1, Min(i + n, Len(a)))

RECURSIVE Concatenate(_)
Concatenate(chunks) ==
  IF chunks = <<>> THEN <<>> ELSE Head(chunks) \o Concatenate(Tail(chunks))

\* a bounded queue that refuses the newest samples instead of evicting
ExtendKeepOldest(buf, data, n) ==
  LET all == buf \o data IN SubSeq(all, 1, Min(Len(all), n))

\* deque(maxlen=n).extend(data)
Extend(buf, data, n) ==
  LET all == buf \o data
  IN IF Len(all) <= n THEN all ELSE SubSeq(all, Len(all) - n + 1, Len(all))

InitLoc == [audio_chunks |-> <<>>, silence_count |-> 0, got |-> FALSE,
            audio |-> <<>>, i |-> 0, audio_data |-> <<>>, j |-> 0,
            text |-> "", s |-> 0, c |-> 0, duration |-> 0, processed |-> <<>>]

\* locals of the listening frames are dead once the frame is left
ClearListening(l) == [l EXCEPT !.audio_chunks = <<>>, !.silence_count = 0,
                               !.got = FALSE, !.audio = <<>>, !.i = 0,
                               !.text = "", !.s = 0]

InitEp == [started |-> FALSE, frames |-> <<>>, speech |-> <<>>, eos |-> FALSE,
           exited |-> FALSE, cancelled |-> FALSE, transcribed |-> <<>>,
           nospeech |-> FALSE, synth |-> 0, played |-> 0,
           late_frames |-> 0, late_reads |-> 0, notext |-> FALSE,
           generated |-> FALSE]

\* the last public call of a caller of AudioCapture and how it ended
NoCall == [op |-> "none", before |-> FALSE, raised |-> FALSE, done |-> FALSE]

\* the last snapshot taken by get_buffer
NoSnap == [taken |-> FALSE, duration |-> 0, before |-> <<>>, result |-> <<>>]

\* pushed: the samples stored since the buffer was last empty by clear;
\* log: the observer invocations <<observer, first sample, raised>>
InitHist == [stop_returned |-> FALSE, ww_stopped |-> FALSE, pushed |-> <<>>,
             snap |-> NoSnap, log |-> <<>>, call |-> NoCall]

\* ===================================================================== VAD
VALID_FRAME_DURATIONS == {10, 20, 30}

\* locals of get_speech_frames, and the classification of every frame
NoSeg == [pc |-> "idle", length |-> 0, classes |-> <<>>, num_frames |-> 0,
          i |-> 0, in_speech |-> FALSE, start_frame |-> 0,
          speech_segments |-> <<>>]

\* a VAD before __init__ ran, with the arguments __init__ will receive
\* (silence_duration in milliseconds)
Unconstructed(sample_rate, aggressiveness, frame_duration_ms, silence_ms) ==
  [state |-> "new",
   sample_rate |-> sample_rate, aggressiveness |-> aggressiveness,
   frame_duration_ms |-> frame_duration_ms, silence_ms |-> silence_ms,
   frame_size |-> 0, silence_threshold |-> 0,
   speech_frames |-> 0, silence_frames |-> 0,
   calls |-> <<>>, cleared |-> TRUE, ret |-> FALSE, all |-> <<>>,
   seg |-> NoSeg]

\* VAD.__init__ without the validation of the frame duration
VADNewAnyFrameDuration(v) ==
  IF v.sample_rate \notin {8000, 16000, 32000, 48000}
       \/ ~(0 <= v.aggressiveness /\ v.aggressiveness <= 3)
    THEN [v EXCEPT !.state = "ValueError"]
    ELSE [v EXCEPT !.state = "ok",
                   !.frame_size = (v.sample_rate * v.frame_duration_ms) \div 1000,
                   !.silence_threshold = v.silence_ms \div v.frame_duration_ms]

\* VAD.__init__ (vad.py 21-60) on v: ValueError, or the constructed object
VADNew(v) ==
  IF v.sample_rate \notin {8000, 16000, 32000, 48000}
    THEN [v EXCEPT !.state = "ValueError"]
  ELSE IF v.frame_duration_ms \notin VALID_FRAME_DURATIONS
    THEN [v EXCEPT !.state = "ValueError"]
  ELSE IF ~(0 <= v.aggressiveness /\ v.aggressiveness <= 3)
    THEN [v EXCEPT !.state = "ValueError"]
  ELSE [v EXCEPT !.state = "ok",
                 !.frame_size = (v.sample_rate * v.frame_duration_ms) \div 1000,
                 !.speech_frames = 0, !.silence_frames = 0,
                 !.silence_threshold = v.silence_ms \div v.frame_duration_ms]

\* self.vad of the Assistant (main.py 91-95), with the default configuration
DefaultVAD == VADNew(Unconstructed(16000, 3, 30, 2000))

\* ====================================================== wake-word detectors
\* Keyword model files are named by their stem: "a" stands for a.ppn.  A
\* keyword configuration is {"path": ..., "name": ...}; NoName is a
\* configuration without "name" (the sensitivity plays no part here)
Stems == {"a", "b"}
NoName == "-"
KeywordNameArgs == {NoName, "b"}
KeywordConfigs == [path : Stems, name : KeywordNameArgs]
\* the lists given to __init__ and reload_keywords: up to two keywords
KeywordLists ==
  {<<>>} \cup {<<kw>> : kw \in KeywordConfigs}
         \cup {<<k1, k2>> : k1 \in KeywordConfigs, k2 \in KeywordConfigs}
\* the files that exist
FileSets == {{"a", "b"}, {"a"}}
\* what process of an engine can return: -1, or the index of a keyword
KeywordIndices == -1..(MaxReconfigs + 1)

\* kw.get("name", os.path.basename(kw["path"]).replace(".ppn", ""))
\* and name or os.path.basename(path).replace(".ppn", "")
KeywordName(kw) == IF kw.name = NoName THEN kw.path ELSE kw.name

\* [kw["name"] for kw in self.keywords]
KeywordNames(keywords) == {keywords[k].name : k \in 1..Len(keywords)}

\* d[k] = v and d.pop(k, None) on a dict
Put(d, k, v) == [x \in DOMAIN d \cup {k} |-> IF x = k THEN v ELSE d[x]]
Pop(d, k) == [x \in DOMAIN d \ {k} |-> d[x]]
EmptyDict == [x \in {} |-> 0]

\* the last call made on the detector by its owner
NoKeywordCall == [op |-> "none", name |-> NoName, duplicate |-> FALSE]

\* A detector object and its two users: the owner, which constructs and
\* reconfigures it (pc), and the capture thread, which calls process (ppc).
\*   engines: every inference engine instance created so far, with the
\*   keyword list it was built from; engine: self.porcupine (0 is None)
NoDetector ==
  [backend |-> "none", AVAILABLE |-> FALSE, files |-> {}, args |-> <<>>,
   keywords |-> <<>>, detections |-> EmptyDict,
   last_detection_time |-> EmptyDict,
   initialized |-> FALSE, engine |-> 0, engines |-> <<>>,
   pc |-> "none", ret_to |-> "idle", call |-> NoKeywordCall, ncalls |-> 0,
   ret |-> "none",
   ppc |-> "idle", handle |-> 0, nprocess |-> 0, result |-> <<FALSE, NoName>>,
   now |-> 0, accepted |-> FALSE, text |-> <<>>, reports |-> <<>>]

\* the WakeWordEngine that is not constructed
NoEngine == [state |-> "none"]

\* a Porcupine detector before __init__ ran, with its keywords argument
NewPorcupine(available, files, keywords) ==
  [NoDetector EXCEPT !.backend = "porcupine", !.AVAILABLE = available,
                     !.files = files, !.args = keywords, !.pc = "new"]

Init ==
  /\ chunk_size \in ChunkSizes
  /\ mode \in {"run", "once"}
  /\ vad = DefaultVAD
  /\ det = NoDetector
  /\ wwe = NoEngine
  /\ running = FALSE
  /\ listening = FALSE
  /\ is_running = FALSE
  /\ stream = 0
  /\ sstate = [s \in Streams |-> "none"]
  /\ nstreams = 0
  /\ callbacks = <<>>
  /\ buffer = <<>>
  /\ ww_is_running = FALSE
  /\ stack = [t \in Threads |-> IF t = 0 THEN <<"main">> ELSE <<>>]
  /\ loc = [t \in Threads |-> InitLoc]
  /\ signals = 0 /\ failures = 0 /\ nreads = 0
  /\ delivered = 0
  /\ ep = [t \in Threads |-> InitEp]
  /\ hist = InitHist

\* ============================================================ AudioCapture
\* start without its "already running" test
start_check_unguarded(t) ==
  /\ At(t, "st_1")
  /\ Goto(t, "st_open")
  /\ UNCHANGED <<cfgv, asst, capv, ww_is_running, loc, envv, ep, hist>>

\* AudioCapture.start (capture.py 62-85), one disjunct per statement
start_check(t) ==
  /\ At(t, "st_1")
  /\ IF is_running THEN Return(t) ELSE Goto(t, "st_open")
  /\ UNCHANGED <<cfgv, asst, capv, ww_is_running, loc, envv, ep, hist>>

\* self.stream = self.p.open(..., stream_callback=self._audio_callback)
start_open(t) ==
  /\ At(t, "st_open")
  /\ \/ /\ nstreams < MaxStreams
        /\ nstreams' = nstreams + 1
        /\ stream' = nstreams + 1
        /\ sstate' = [sstate EXCEPT ![nstreams + 1] = "opened"]
        /\ Goto(t, "st_flag")
        /\ UNCHANGED <<failures, loc>>
     \/ /\ failures < MaxFailures
        /\ failures' = failures + 1
        /\ Raise(t)
        /\ loc' = [loc EXCEPT ![t] = ClearListening(@)]
        /\ UNCHANGED <<nstreams, stream, sstate>>
  /\ UNCHANGED <<cfgv, asst, is_running, callbacks, buffer, ww_is_running,
                 signals, nreads, delivered, ep, hist>>

start_flag(t) ==
  /\ At(t, "st_flag")
  /\ is_running' = TRUE
  /\ Goto(t, "st_go")
  /\ UNCHANGED <<cfgv, asst, stream, sstate, nstreams, callbacks, buffer,
                 ww_is_running, loc, envv, ep, hist>>

\* self.stream.start_stream()
start_stream(t) ==
  /\ At(t, "st_go")
  /\ \/ /\ stream # 0 /\ sstate[stream] \in {"opened", "stopped"}
        /\ sstate' = [sstate EXCEPT ![stream] = "active"]
        /\ Return(t)
        /\ UNCHANGED <<failures, loc>>
     \/ /\ failures < MaxFailures
        /\ failures' = failures + 1
        /\ Raise(t)
        /\ loc' = [loc EXCEPT ![t] = ClearListening(@)]
        /\ UNCHANGED sstate
  /\ UNCHANGED <<cfgv, asst, is_running, stream, nstreams, callbacks, buffer,
                 ww_is_running, signals, nreads, delivered, ep, hist>>

start(t) == start_check(t) \/ start_open(t) \/ start_flag(t) \/ start_stream(t)

\* AudioCapture.stop (capture.py 87-98)
capture_stop_check(t) ==
  /\ At(t, "cs_1")
  /\ IF ~is_running THEN Return(t) ELSE Goto(t, "cs_2")
  /\ UNCHANGED <<cfgv, asst, capv, ww_is_running, loc, envv, ep, hist>>

capture_stop_flag(t) ==
  /\ At(t, "cs_2")
  /\ is_running' = FALSE
  /\ Goto(t, "cs_3")
  /\ UNCHANGED <<cfgv, asst, stream, sstate, nstreams, callbacks, buffer,
                 ww_is_running, loc, envv, ep, hist>>

\* if self.stream: evaluates self.stream for the stop_stream call
capture_stop_latch(t) ==
  /\ At(t, "cs_3")
  /\ IF stream = 0
       THEN Return(t) /\ UNCHANGED loc
       ELSE Goto(t, "cs_stop") /\ loc' = [loc EXCEPT ![t].s = stream]
  /\ UNCHANGED <<cfgv, asst, capv, ww_is_running, envv, ep, hist>>

\* Pa_StopStream returns once the stream's callback thread has finished
capture_stop_stream(t) ==
  /\ At(t, "cs_stop")
  /\ stack[loc[t].s] = <<>>
  /\ sstate' = [sstate EXCEPT ![loc[t].s] =
                  IF @ \in {"opened", "active"} THEN "stopped" ELSE @]
  /\ loc' = [loc EXCEPT ![t].s = 0]
  /\ Goto(t, "cs_close")
  /\ UNCHANGED <<cfgv, asst, is_running, stream, nstreams, callbacks, buffer,
                 ww_is_running, envv, ep, hist>>

\* self.stream.close(): self.stream is read again
capture_stop_close(t) ==
  /\ At(t, "cs_close")
  /\ stream # 0 => stack[stream] = <<>>
  /\ sstate' = IF stream = 0 THEN sstate
               ELSE [sstate EXCEPT ![stream] = "closed"]
  /\ Return(t)
  /\ UNCHANGED <<cfgv, asst, is_running, stream, nstreams, callbacks, buffer,
                 ww_is_running, loc, envv, ep, hist>>

capture_stop(t) ==
  \/ capture_stop_check(t) \/ capture_stop_flag(t) \/ capture_stop_latch(t)
  \/ capture_stop_stream(t) \/ capture_stop_close(t)

\* AudioCapture._audio_callback (capture.py 100-119), on the callback
\* thread of stream s: decode, extend the ring buffer under the lock, then
\* for callback in self.callbacks: try: callback(audio_data)
audio_callback_extend(s) ==
  /\ alive
  /\ stack[s] = <<>>
  /\ sstate[s] = "active"
  /\ delivered < MaxChunks
  /\ delivered' = delivered + 1
  /\ LET audio_data == Chunk(delivered + 1, chunk_size)
     IN /\ buffer' = Extend(buffer, audio_data, BufferSize)
        /\ IF callbacks # <<>>
             THEN /\ stack' = [stack EXCEPT ![s] = <<callbacks[1], "ac_next">>]
                  /\ loc' = [loc EXCEPT ![s].audio_data = audio_data]
             ELSE UNCHANGED <<stack, loc>>
        /\ hist' = [hist EXCEPT !.pushed = @ \o audio_data]
  /\ UNCHANGED <<cfgv, asst, is_running, stream, sstate, nstreams, callbacks,
                 ww_is_running, signals, failures, nreads, ep>>

\* the callback returned, or raised and the error was logged: next callback
audio_callback_next(s) ==
  /\ At(s, "ac_next")
  /\ IF loc[s].c + 1 < Len(callbacks)
       THEN /\ Call(s, callbacks[loc[s].c + 2], "ac_next")
            /\ loc' = [loc EXCEPT ![s].c = @ + 1, ![s].j = 0,
                                    ![s].processed = <<>>]
       ELSE /\ Return(s)
            /\ loc' = [loc EXCEPT ![s].audio_data = <<>>, ![s].c = 0, ![s].j = 0,
                                    ![s].processed = <<>>]
  /\ ep' = [ep EXCEPT ![s] = InitEp]
  /\ UNCHANGED <<cfgv, asst, capv, ww_is_running, envv, hist>>

audio_callback(s) == audio_callback_extend(s) \/ audio_callback_next(s)

\* AudioCapture.register_callback (capture.py 121-123)
register_callback(t) ==
  /\ At(t, "rc_1")
  /\ callbacks' = Append(callbacks, "ob_1")
  /\ Return(t)
  /\ UNCHANGED <<cfgv, asst, is_running, stream, sstate, nstreams, buffer,
                 ww_is_running, loc, envv, ep, hist>>

\* a[i:] of a Python list: a negative i counts from the end
SliceFrom(a, i) ==
  LET n == Len(a)
      from == IF i < 0 THEN (IF n + i < 0 THEN 0 ELSE n + i) ELSE Min(i, n)
  IN SubSeq(a, from + 1, n)

\* duration=None of get_buffer
None == -1

\* the value AudioCapture.get_buffer returns (capture.py 135-141); duration
\* is in sample periods, so that int(self.sample_rate * duration) = duration
GetBuffer(buf, duration) ==
  IF duration = None THEN buf
  ELSE LET samples == Min(duration, Len(buf))
       IN SliceFrom(buf, 0 - samples)

\* AudioCapture.get_buffer (capture.py 125-141): one step, the body holds
\* buffer_lock as the extend of _audio_callback does
get_buffer(t) ==
  /\ At(t, "gb_1")
  /\ hist' = [hist EXCEPT !.snap = [taken |-> TRUE,
                                    duration |-> loc[t].duration,
                                    before |-> buffer,
                                    result |-> GetBuffer(buffer, loc[t].duration)]]
  /\ Return(t)
  /\ UNCHANGED <<cfgv, asst, capv, ww_is_running, loc, envv, ep>>

\* AudioCapture.clear_buffer (capture.py 143-146)
clear_buffer(t) ==
  /\ At(t, "cb_1")
  /\ buffer' = <<>>
  /\ hist' = [hist EXCEPT !.pushed = <<>>]
  /\ Return(t)
  /\ UNCHANGED <<cfgv, asst, is_running, stream, sstate, nstreams, callbacks,
                 ww_is_running, loc, envv, ep>>

\* AudioCapture.get_chunk (capture.py 148-167)
get_chunk_check(t) ==
  /\ At(t, "gc_1")
  /\ IF ~is_running THEN Call(t, "st_1", "gc_read") ELSE Goto(t, "gc_read")
  /\ UNCHANGED <<cfgv, asst, capv, ww_is_running, loc, envv, ep, hist>>

\* data = self.stream.read(...): a chunk, or an exception that yields None
get_chunk_read(t) ==
  /\ At(t, "gc_read")
  /\ \/ /\ stream # 0 /\ sstate[stream] = "active"
        /\ nreads < MaxReads
        /\ nreads' = nreads + 1
        /\ loc' = [loc EXCEPT ![t].got = TRUE,
                              ![t].audio = Chunk(nreads + 1, chunk_size)]
     \/ /\ loc' = [loc EXCEPT ![t].got = FALSE, ![t].audio = <<>>]
        /\ UNCHANGED nreads
  /\ ep' = [ep EXCEPT ![t].late_reads = IF running THEN @ ELSE Min(@ + 1, 2)]
  /\ Return(t)
  /\ UNCHANGED <<cfgv, asst, capv, ww_is_running, signals, failures, delivered,
                 hist>>

get_chunk(t) == get_chunk_check(t) \/ get_chunk_read(t)

\* =============================================================== Assistant
\* Assistant.stop (main.py 429-438)
stop_running(t) ==
  /\ At(t, "stop_1")
  /\ running' = FALSE
  /\ Goto(t, "stop_2")
  /\ UNCHANGED <<cfgv, listening, capv, ww_is_running, loc, envv, ep, hist>>

stop_listening(t) ==
  /\ At(t, "stop_2")
  /\ listening' = FALSE
  /\ Goto(t, "stop_3")
  /\ UNCHANGED <<cfgv, running, capv, ww_is_running, loc, envv, ep, hist>>

stop_capture(t) ==
  /\ At(t, "stop_3")
  /\ IF is_running THEN Call(t, "cs_1", "stop_ret") ELSE Goto(t, "stop_ret")
  /\ UNCHANGED <<cfgv, asst, capv, ww_is_running, loc, envv, ep, hist>>

stop_return(t) ==
  /\ At(t, "stop_ret")
  /\ hist' = [hist EXCEPT !.stop_returned = TRUE]
  /\ Return(t)
  /\ UNCHANGED <<cfgv, asst, capv, ww_is_running, loc, envv, ep>>

stop(t) == stop_running(t) \/ stop_listening(t) \/ stop_capture(t) \/ stop_return(t)

\* Assistant._signal_handler (main.py 229-232): SIGINT / SIGTERM run the
\* handler on the main thread, on top of whatever it was executing
signal_handler ==
  /\ alive
  /\ signals < MaxSignals
  /\ signals' = signals + 1
  /\ stack' = [stack EXCEPT ![0] = <<"stop_1">> \o @]
  /\ UNCHANGED <<cfgv, asst, capv, ww_is_running, loc, failures, nreads,
                 delivered, ep, hist>>

\* Assistant.start_listening (main.py 249-265)
start_listening_check(t) ==
  /\ At(t, "sl_1")
  /\ IF listening THEN Return(t) ELSE Goto(t, "sl_2")
  /\ UNCHANGED <<cfgv, asst, capv, ww_is_running, loc, envv, ep, hist>>

start_listening_set(t) ==
  /\ At(t, "sl_2")
  /\ listening' = TRUE
  /\ Goto(t, "sl_3")
  /\ UNCHANGED <<cfgv, running, capv, ww_is_running, loc, envv, ep, hist>>

\* if not self.capture.is_running: self.capture.start(); then
\* self._capture_with_vad() as the last statement
start_listening_capture(t) ==
  /\ At(t, "sl_3")
  /\ IF ~is_running THEN Call(t, "st_1", "cv_reset") ELSE Goto(t, "cv_reset")
  /\ UNCHANGED <<cfgv, asst, capv, ww_is_running, loc, envv, ep, hist>>

start_listening(t) ==
  start_listening_check(t) \/ start_listening_set(t) \/ start_listening_capture(t)

\* Assistant._capture_with_vad (main.py 267-318)
\* The exit test of the inner loop (main.py 303)
EndOfSpeech(audio_chunks, silence_count, max_silence) ==
  Len(audio_chunks) > 0 /\ silence_count >= max_silence

\* a count that a speech frame does not reset: silence before the last speech
\* frame would then count towards the end of speech
CountSilenceNoReset(silence_count, is_speech) ==
  IF is_speech THEN silence_count ELSE silence_count + 1

\* silence_count after one classified frame (main.py 296-300)
CountSilence(silence_count, is_speech) ==
  IF is_speech THEN 0 ELSE silence_count + 1

capture_reset(t) ==
  /\ At(t, "cv_reset")
  /\ loc' = [loc EXCEPT ![t].audio_chunks = <<>>, ![t].silence_count = 0]
  /\ ep' = [ep EXCEPT ![t] = [InitEp EXCEPT !.started = TRUE]]
  /\ Goto(t, "cv_while")
  /\ UNCHANGED <<cfgv, asst, capv, ww_is_running, envv, hist>>

\* while self.listening and self.running
capture_while(t) ==
  /\ At(t, "cv_while")
  /\ IF listening /\ running
       THEN /\ Call(t, "gc_1", "cv_got")
            /\ UNCHANGED ep
       ELSE /\ Goto(t, "cv_after")
            /\ ep' = [ep EXCEPT ![t].exited = TRUE,
                                ![t].cancelled = ~running /\ ~ep[t].eos]
  /\ UNCHANGED <<cfgv, asst, capv, ww_is_running, loc, envv, hist>>

\* if audio is None: continue
capture_got(t) ==
  /\ At(t, "cv_got")
  /\ IF loc[t].got
       THEN Goto(t, "cv_for") /\ loc' = [loc EXCEPT ![t].i = 0]
       ELSE Goto(t, "cv_while") /\ UNCHANGED loc
  /\ UNCHANGED <<cfgv, asst, capv, ww_is_running, envv, ep, hist>>

\* for i in range(0, len(audio), chunk_size): if not self.listening: break
capture_for(t) ==
  /\ At(t, "cv_for")
  /\ IF loc[t].i < Len(loc[t].audio) /\ listening
       THEN Goto(t, "cv_frame") /\ UNCHANGED loc
       ELSE /\ Goto(t, "cv_chk")
            /\ loc' = [loc EXCEPT ![t].got = FALSE, ![t].audio = <<>>, ![t].i = 0]
  /\ UNCHANGED <<cfgv, asst, capv, ww_is_running, envv, ep, hist>>

\* One frame: slice, pad, classify, count, test for the end of speech.
\* np is a local name of _capture_with_vad (it is imported at line 313),
\* so np.pad at line 292 raises UnboundLocalError for a short last slice.
capture_frame(t) ==
  /\ At(t, "cv_frame")
  /\ LET frame == Slice(loc[t].audio, loc[t].i, FrameSize)
     IN IF Len(frame) < FrameSize
        THEN /\ Raise(t)
             /\ loc' = [loc EXCEPT ![t] = ClearListening(@)]
             /\ UNCHANGED <<listening, ep>>
        ELSE /\ Len(ep[t].frames) < MaxFrames
             /\ \E is_speech \in BOOLEAN :
                  LET chunks == IF is_speech
                                  THEN Append(loc[t].audio_chunks, frame)
                                  ELSE loc[t].audio_chunks
                      count == CountSilence(loc[t].silence_count, is_speech)
                      eos == EndOfSpeech(chunks, count, SilenceThreshold)
                  IN /\ loc' = IF eos
                          THEN [loc EXCEPT ![t].audio_chunks = chunks,
                                           ![t].silence_count = count,
                                           ![t].got = FALSE,
                                           ![t].audio = <<>>, ![t].i = 0]
                          ELSE [loc EXCEPT ![t].audio_chunks = chunks,
                                           ![t].silence_count = count,
                                           ![t].i = @ + FrameSize]
                     /\ ep' = [ep EXCEPT
                          ![t].frames = Append(@, is_speech),
                          ![t].speech = IF is_speech THEN Append(@, frame) ELSE @,
                          ![t].eos = eos,
                          ![t].late_frames = IF running THEN @ ELSE Min(@ + 1, 3)]
                     /\ IF eos
                          THEN listening' = FALSE /\ Goto(t, "cv_chk")
                          ELSE UNCHANGED listening /\ Goto(t, "cv_for")
  /\ UNCHANGED <<cfgv, running, capv, ww_is_running, envv, hist>>

\* if not self.listening: break
capture_check(t) ==
  /\ At(t, "cv_chk")
  /\ IF ~listening
       THEN /\ Goto(t, "cv_after")
            /\ ep' = [ep EXCEPT ![t].exited = TRUE,
                                ![t].cancelled = ~running /\ ~ep[t].eos]
       ELSE /\ Goto(t, "cv_while")
            /\ UNCHANGED ep
  /\ UNCHANGED <<cfgv, asst, capv, ww_is_running, loc, envv, hist>>

\* if audio_chunks: self._process_audio(np.concatenate(audio_chunks))
\* else: self._speak("No te he entendido")
capture_after(t) ==
  /\ At(t, "cv_after")
  /\ IF loc[t].audio_chunks # <<>>
       THEN /\ loc' = [loc EXCEPT ![t].audio = Concatenate(loc[t].audio_chunks),
                                    ![t].audio_chunks = <<>>,
                                    ![t].silence_count = 0]
            /\ Call(t, "pa_1", "cv_ret")
            /\ UNCHANGED ep
       ELSE /\ loc' = [loc EXCEPT ![t].text = "No te he entendido",
                                    ![t].silence_count = 0]
            /\ ep' = [ep EXCEPT ![t].nospeech = TRUE]
            /\ Call(t, "sp_1", "cv_ret")
  /\ UNCHANGED <<cfgv, asst, capv, ww_is_running, envv, hist>>

capture_return(t) ==
  /\ At(t, "cv_ret")
  /\ Return(t)
  /\ ep' = [ep EXCEPT ![t] = InitEp]
  /\ UNCHANGED <<cfgv, asst, capv, ww_is_running, loc, envv, hist>>

capture_with_vad(t) ==
  \/ capture_reset(t) \/ capture_while(t) \/ capture_got(t) \/ capture_for(t)
  \/ capture_frame(t) \/ capture_check(t) \/ capture_after(t)
  \/ capture_return(t)

\* Assistant._process_audio (main.py 320-334): result = self.stt.transcribe(..)
\* text is None or empty, a system command, or anything else
Texts == {"", "para", "hola"}

\* Assistant._process_intent (main.py 336-354): the phrase to speak
process_intent(text) ==
  IF text = "para" THEN "Adios" ELSE "respuesta"

\* notext: the transcription gave no text; generated: self.llm.generate
\* was called (350)
process_audio(t) ==
  /\ At(t, "pa_1")
  /\ \E text \in Texts :
       /\ ep' = [ep EXCEPT ![t].transcribed = Append(@, loc[t].audio),
                           ![t].notext = (text = ""),
                           ![t].generated = (text \notin {"", "para"})]
       /\ loc' = [loc EXCEPT ![t].audio = <<>>,
                             ![t].text = IF text = "" THEN "No te he entendido"
                                         ELSE process_intent(text)]
  /\ Goto(t, "sp_1")
  /\ UNCHANGED <<cfgv, asst, capv, ww_is_running, envv, hist>>

\* Assistant._speak (main.py 356-368): output_file = self.tts.synthesize(text)
speak_synthesize(t) ==
  /\ At(t, "sp_1")
  /\ IF loc[t].text = ""
       THEN Return(t) /\ UNCHANGED <<ep, loc>>
       ELSE /\ ep' = [ep EXCEPT ![t].synth =
                         IF ep[t].started THEN Min(@ + 1, 2) ELSE @]
            /\ \E output_file \in BOOLEAN :
                 IF output_file
                   THEN Goto(t, "sp_play") /\ UNCHANGED loc
                   ELSE Return(t) /\ loc' = [loc EXCEPT ![t].text = ""]
  /\ UNCHANGED <<cfgv, asst, capv, ww_is_running, envv, hist>>

\* self.playback.play_wav(output_file); os.unlink(output_file)
speak_play(t) ==
  /\ At(t, "sp_play")
  /\ ep' = [ep EXCEPT ![t].played = IF ep[t].started THEN Min(@ + 1, 2) ELSE @]
  /\ loc' = [loc EXCEPT ![t].text = ""]
  /\ Return(t)
  /\ UNCHANGED <<cfgv, asst, capv, ww_is_running, envv, hist>>

speak(t) == speak_synthesize(t) \/ speak_play(t)

\* ========================================================== WakeWordEngine
\* WakeWordEngine.start (wakeword.py 862-907), called by run() once the
\* detector is available: register the observer, start the capture
wakeword_start_register(t) ==
  /\ At(t, "ws_1")
  /\ IF ww_is_running
       THEN Return(t) /\ UNCHANGED callbacks
       ELSE Goto(t, "ws_chk") /\ callbacks' = Append(callbacks, "ww_for")
  /\ UNCHANGED <<cfgv, asst, is_running, stream, sstate, nstreams, buffer,
                 ww_is_running, loc, envv, ep, hist>>

wakeword_start_capture(t) ==
  /\ At(t, "ws_chk")
  /\ IF ~is_running THEN Call(t, "st_1", "ws_set") ELSE Goto(t, "ws_set")
  /\ UNCHANGED <<cfgv, asst, capv, ww_is_running, loc, envv, ep, hist>>

wakeword_start_flag(t) ==
  /\ At(t, "ws_set")
  /\ ww_is_running' = TRUE
  /\ Return(t)
  /\ UNCHANGED <<cfgv, asst, capv, loc, envv, ep, hist>>

wakeword_start(t) ==
  wakeword_start_register(t) \/ wakeword_start_capture(t) \/ wakeword_start_flag(t)

\* WakeWordEngine.stop (wakeword.py 909-912), a public method
wakeword_stop ==
  /\ alive
  /\ ww_is_running
  /\ ww_is_running' = FALSE
  /\ hist' = [hist EXCEPT !.ww_stopped = TRUE]
  /\ UNCHANGED <<cfgv, asst, capv, stack, loc, envv, ep>>

\* a callback that hands the final partial slice to process as well
TooShortNever(frame, frame_len) == FALSE

\* if len(frame) < frame_len: continue (wakeword.py 890-891)
TooShort(frame, frame_len) == Len(frame) < frame_len

\* The observer registered by WakeWordEngine.start (wakeword.py 886-899):
\* the slices range(0, len(audio_chunk), frame_len) visits; processed: the
\* frames given to self.detector.process for this chunk
wakeword_callback_frame(t) ==
  /\ At(t, "ww_for")
  /\ LET frame == Slice(loc[t].audio_data, loc[t].j, WWFrameLength)
     IN IF loc[t].j >= Len(loc[t].audio_data)
          THEN Return(t) /\ UNCHANGED loc
          ELSE IF TooShort(frame, WWFrameLength)
          THEN /\ loc' = [loc EXCEPT ![t].j = @ + WWFrameLength]
               /\ UNCHANGED stack
          ELSE \E detected \in BOOLEAN :
                 IF detected
                   THEN /\ Call(t, "sl_1", "ww_next")
                        /\ loc' = [loc EXCEPT ![t].processed = Append(@, frame)]
                   ELSE /\ loc' = [loc EXCEPT ![t].j = @ + WWFrameLength,
                                               ![t].processed = Append(@, frame)]
                        /\ UNCHANGED stack
  /\ UNCHANGED <<cfgv, asst, capv, ww_is_running, envv, ep, hist>>

\* next slice, after on_detection returned or its exception was logged
wakeword_callback_next(t) ==
  /\ At(t, "ww_next")
  /\ loc' = [loc EXCEPT ![t].j = @ + WWFrameLength]
  /\ ep' = [ep EXCEPT ![t] = InitEp]
  /\ Goto(t, "ww_for")
  /\ UNCHANGED <<cfgv, asst, capv, ww_is_running, envv, hist>>

wakeword_callback(t) == wakeword_callback_frame(t) \/ wakeword_callback_next(t)

\* ======================================================== the main thread
\* main (main.py 476-509): assistant.run_once() or assistant.run()
main ==
  /\ At(0, "main")
  /\ Goto(0, IF mode = "once" THEN "once_1" ELSE "run_1")
  /\ UNCHANGED <<cfgv, asst, capv, ww_is_running, loc, envv, ep, hist>>

\* Assistant.run (main.py 383-409)
run_begin ==
  /\ At(0, "run_1")
  /\ running' = TRUE
  /\ loc' = [loc EXCEPT ![0].text = "Sistema iniciado"]
  /\ Call(0, "sp_1", "run_2")
  /\ UNCHANGED <<cfgv, listening, capv, ww_is_running, envv, ep, hist>>

run_wakeword ==
  /\ At(0, "run_2")
  /\ Call(0, "ws_1", "run_loop")
  /\ UNCHANGED <<cfgv, asst, capv, ww_is_running, loc, envv, ep, hist>>

\* while self.running: time.sleep(0.1); finally: self.stop()
run_loop ==
  /\ At(0, "run_loop")
  /\ ~running
  /\ Call(0, "stop_1", "exit")
  /\ UNCHANGED <<cfgv, asst, capv, ww_is_running, loc, envv, ep, hist>>

run == run_begin \/ run_wakeword \/ run_loop

\* Assistant.run_once (main.py 411-427)
run_once_begin ==
  /\ At(0, "once_1")
  /\ running' = TRUE
  /\ loc' = [loc EXCEPT ![0].text = "Di tu comando"]
  /\ Call(0, "sp_1", "once_2")
  /\ UNCHANGED <<cfgv, listening, capv, ww_is_running, envv, ep, hist>>

run_once_capture ==
  /\ At(0, "once_2")
  /\ IF ~is_running THEN Call(0, "st_1", "once_3") ELSE Goto(0, "once_3")
  /\ UNCHANGED <<cfgv, asst, capv, ww_is_running, loc, envv, ep, hist>>

run_once_listen ==
  /\ At(0, "once_3")
  /\ Call(0, "sl_1", "once_wait")
  /\ UNCHANGED <<cfgv, asst, capv, ww_is_running, loc, envv, ep, hist>>

\* while self.listening: time.sleep(0.1); self.stop()
run_once_wait ==
  /\ At(0, "once_wait")
  /\ ~listening
  /\ Call(0, "stop_1", "exit")
  /\ UNCHANGED <<cfgv, asst, capv, ww_is_running, loc, envv, ep, hist>>

run_once == run_once_begin \/ run_once_capture \/ run_once_listen \/ run_once_wait

\* ================================================================ VAD calls
\* the pipeline, which the calls on a VAD leave alone
pipev == <<chunk_size, mode, asst, capv, ww_is_running, stack, loc, envv, ep,
           hist, det, wwe>>

vad_init ==
  /\ vad.state = "new"
  /\ vad' = VADNew(vad)
  /\ UNCHANGED pipev

\* VAD.detect_speech_end (vad.py 98-121); is_speech is the verdict of
\* self.is_speech on the frame.  calls: the verdicts since the counters
\* were last reset; all: every call, <<verdict, returned value>>
detect_speech_end ==
  /\ vad.state = "ok"
  /\ Len(vad.all) < MaxCalls
  /\ \E is_speech \in BOOLEAN :
       LET speech_frames == IF is_speech THEN vad.speech_frames + 1
                            ELSE vad.speech_frames
           silence_frames == IF is_speech THEN 0 ELSE vad.silence_frames + 1
           ended == speech_frames > 0 /\ silence_frames >= vad.silence_threshold
       IN vad' = [vad EXCEPT
                    !.speech_frames = IF ended THEN 0 ELSE speech_frames,
                    !.silence_frames = IF ended THEN 0 ELSE silence_frames,
                    !.ret = ended,
                    !.calls = Append(IF vad.cleared THEN <<>> ELSE @, is_speech),
                    !.cleared = ended,
                    !.all = Append(@, <<is_speech, ended>>)]
  /\ UNCHANGED pipev

\* VAD.reset (vad.py 123-126), called by the user of the VAD
vad_reset ==
  /\ vad.state = "ok"
  /\ ~vad.cleared
  /\ vad' = [vad EXCEPT !.speech_frames = 0, !.silence_frames = 0,
                        !.cleared = TRUE]
  /\ UNCHANGED pipev

\* VAD.get_speech_frames (vad.py 161-197) on a stream of length samples
get_speech_frames_begin ==
  /\ vad.state = "ok"
  /\ vad.seg.pc = "idle"
  /\ \E n \in 0..MaxSegFrames, partial \in {0, 1, vad.frame_size - 1} :
       LET length == n * vad.frame_size + partial
       IN vad' = [vad EXCEPT !.seg = [NoSeg EXCEPT
                    !.pc = "for", !.length = length,
                    !.num_frames = length \div vad.frame_size]]
  /\ UNCHANGED pipev

\* the loop body: is_speech(frame) is the verdict on frame i
get_speech_frames_frame ==
  /\ vad.seg.pc = "for"
  /\ vad.seg.i < vad.seg.num_frames
  /\ \E is_speech \in BOOLEAN :
       LET g == vad.seg
           i == g.i
       IN vad' = [vad EXCEPT !.seg = [g EXCEPT
            !.classes = Append(@, is_speech),
            !.i = i + 1,
            !.start_frame = IF is_speech /\ ~g.in_speech THEN i ELSE @,
            !.in_speech = is_speech,
            !.speech_segments =
               IF ~is_speech /\ g.in_speech
                 THEN Append(@, <<g.start_frame, i>>) ELSE @]]
  /\ UNCHANGED pipev

\* get_speech_frames returning without closing the segment still open
get_speech_frames_return_open ==
  /\ vad.seg.pc = "for"
  /\ vad.seg.i = vad.seg.num_frames
  /\ vad' = [vad EXCEPT !.seg.pc = "done"]
  /\ UNCHANGED pipev

\* after the loop: if in_speech, close the segment that is still open
get_speech_frames_return ==
  /\ vad.seg.pc = "for"
  /\ vad.seg.i = vad.seg.num_frames
  /\ vad' = [vad EXCEPT !.seg.pc = "done",
                        !.seg.speech_segments =
                           IF vad.seg.in_speech
                             THEN Append(@, <<vad.seg.start_frame,
                                              vad.seg.num_frames>>)
                             ELSE @]
  /\ UNCHANGED pipev

get_speech_frames ==
  \/ get_speech_frames_begin \/ get_speech_frames_frame
  \/ get_speech_frames_return

\* ======================================================= WakeWordDetector
\* everything but the detector
restv == <<chunk_size, mode, asst, capv, ww_is_running, stack, loc, envv, ep,
           hist, vad, wwe>>

\* the owner is about to execute statement l
OwnerAt(l) == det.ppc # "crashed" /\ det.pc = l

\* __init__ has returned: the first call is made, or can be
Constructed ==
  det.ncalls > 0 \/ det.pc = "idle"

\* the owner returns value ("True", "False"), or the exception, from the
\* method it is in
Returned(d, value) == [d EXCEPT !.pc = "idle", !.ret = value]

\* an instance after delete()
Deleted == [live |-> FALSE, built |-> <<>>]

\* self.keywords.remove(kw) for the first kw of that name
RECURSIVE Remove(_, _)
Remove(keywords, name) ==
  IF keywords = <<>> THEN <<>>
  ELSE IF Head(keywords).name = name THEN Tail(keywords)
  ELSE <<Head(keywords)>> \o Remove(Tail(keywords), name)

\* WakeWordDetector.__init__ (wakeword.py 79-117) with keywords=args
porcupine_new ==
  /\ det.backend = "porcupine"
  /\ OwnerAt("new")
  /\ LET keywords == [k \in 1..Len(det.args) |->
                        [path |-> det.args[k].path,
                         name |-> KeywordName(det.args[k])]]
         detections == [n \in KeywordNames(keywords) |-> 0]
     IN det' = [det EXCEPT !.keywords = keywords, !.detections = detections,
                           !.pc = IF det.AVAILABLE THEN "in_1" ELSE "idle",
                           !.ret_to = "idle"]
  /\ UNCHANGED restv

\* _initialize (119-133): nothing to do without keywords, or when a
\* keyword file is missing
initialize_check ==
  /\ OwnerAt("in_1")
  /\ det' = IF det.keywords = <<>>
              \/ \E k \in 1..Len(det.keywords) : det.keywords[k].path \notin det.files
              THEN [det EXCEPT !.pc = det.ret_to]
              ELSE [det EXCEPT !.pc = "in_create"]
  /\ UNCHANGED restv

\* self.porcupine = pvporcupine.create(...) (135-143): a new instance built
\* from every keyword of the list, or an exception, which is logged
initialize_create ==
  /\ OwnerAt("in_create")
  /\ \E created \in BOOLEAN :
       det' = IF created /\ det.AVAILABLE
                THEN [det EXCEPT
                        !.engines = Append(@, [live |-> TRUE,
                                               built |-> det.keywords]),
                        !.engine = Len(det.engines) + 1,
                        !.pc = "in_set"]
                ELSE [det EXCEPT !.pc = det.ret_to]
  /\ UNCHANGED restv

\* self._initialized = True (145)
initialize_set ==
  /\ OwnerAt("in_set")
  /\ det' = [det EXCEPT !.initialized = TRUE, !.pc = det.ret_to]
  /\ UNCHANGED restv

initialize == initialize_check \/ initialize_create \/ initialize_set

\* add_keyword without the test for a name already configured
add_keyword_check_any_name ==
  /\ det.backend = "porcupine"
  /\ OwnerAt("idle")
  /\ det.ncalls < MaxReconfigs
  /\ \E path \in Stems, name \in KeywordNameArgs :
       LET kw_name == KeywordName([path |-> path, name |-> name])
           c == [op |-> "add_keyword", name |-> kw_name,
                 duplicate |-> kw_name \in KeywordNames(det.keywords)]
           d == [det EXCEPT !.call = c, !.ncalls = @ + 1]
       IN det' = IF path \notin det.files
                   THEN Returned(d, "False")
                   ELSE [d EXCEPT !.pc = "td_del", !.args = <<[path |-> path,
                                                              name |-> kw_name]>>]
  /\ UNCHANGED restv

\* WakeWordDetector.add_keyword (215-236): the file must exist and the name
\* must be new
add_keyword_check ==
  /\ det.backend = "porcupine"
  /\ OwnerAt("idle")
  /\ det.ncalls < MaxReconfigs
  /\ \E path \in Stems, name \in KeywordNameArgs :
       LET kw_name == KeywordName([path |-> path, name |-> name])
           c == [op |-> "add_keyword", name |-> kw_name,
                 duplicate |-> kw_name \in KeywordNames(det.keywords)]
           d == [det EXCEPT !.call = c, !.ncalls = @ + 1]
       IN det' = IF path \notin det.files
                   THEN Returned(d, "False")
                 ELSE IF kw_name \in KeywordNames(det.keywords)
                   THEN Returned(d, "False")
                   ELSE [d EXCEPT !.pc = "td_del", !.args = <<[path |-> path,
                                                              name |-> kw_name]>>]
  /\ UNCHANGED restv

\* the release of the previous instance, forgetting to delete it
teardown_delete_leak ==
  /\ OwnerAt("td_del")
  /\ det' = IF det.engine # 0
              THEN [det EXCEPT !.pc = "td_none"]
              ELSE [det EXCEPT !.pc = IF det.call.op = "add_keyword"
                                        THEN "td_flag" ELSE "mutate"]
  /\ UNCHANGED restv

\* if self.porcupine: self.porcupine.delete() (242-243, 286-287, 311-312);
\* add_keyword clears _initialized even without an instance
teardown_delete ==
  /\ OwnerAt("td_del")
  /\ det' = IF det.engine # 0
              THEN [det EXCEPT !.engines[det.engine] = Deleted,
                               !.pc = "td_none"]
              ELSE [det EXCEPT !.pc = IF det.call.op = "add_keyword"
                                        THEN "td_flag" ELSE "mutate"]
  /\ UNCHANGED restv

\* self.porcupine = None (244, 288, 313)
teardown_none ==
  /\ OwnerAt("td_none")
  /\ det' = [det EXCEPT !.engine = 0, !.pc = "td_flag"]
  /\ UNCHANGED restv

\* self._initialized = False (245, 289, 314)
teardown_flag ==
  /\ OwnerAt("td_flag")
  /\ det' = [det EXCEPT !.initialized = FALSE, !.pc = "mutate"]
  /\ UNCHANGED restv

teardown == teardown_delete \/ teardown_none \/ teardown_flag

\* self.keywords.append(...); self.detections[kw_name] = 0;
\* self._initialize() (248-256)
add_keyword_append ==
  /\ OwnerAt("mutate")
  /\ det.call.op = "add_keyword"
  /\ det' = [det EXCEPT !.keywords = Append(@, det.args[1]),
                        !.detections = Put(@, det.args[1].name, 0),
                        !.pc = "in_1", !.ret_to = "ret"]
  /\ UNCHANGED restv

\* return self._initialized (258, 298, 332)
reconfigure_return ==
  /\ OwnerAt("ret")
  /\ det' = Returned(det, IF det.initialized THEN "True" ELSE "False")
  /\ UNCHANGED restv

add_keyword == add_keyword_check \/ add_keyword_append

\* WakeWordDetector.remove_keyword (260-283): never the last keyword, and
\* the name must be configured
remove_keyword_check ==
  /\ det.backend = "porcupine"
  /\ OwnerAt("idle")
  /\ det.ncalls < MaxReconfigs
  /\ \E name \in Stems :
       LET c == [op |-> "remove_keyword", name |-> name, duplicate |-> FALSE]
           d == [det EXCEPT !.call = c, !.ncalls = @ + 1]
       IN det' = IF Len(det.keywords) <= 1
                   THEN Returned(d, "False")
                 ELSE IF name \notin KeywordNames(det.keywords)
                   THEN Returned(d, "False")
                   ELSE [d EXCEPT !.pc = "td_del"]
  /\ UNCHANGED restv

\* self.keywords.remove(kw_to_remove); self.detections.pop(name, None);
\* self._initialize() (292-296)
remove_keyword_remove ==
  /\ OwnerAt("mutate")
  /\ det.call.op = "remove_keyword"
  /\ det' = [det EXCEPT !.keywords = Remove(@, det.call.name),
                        !.detections = Pop(@, det.call.name),
                        !.pc = "in_1", !.ret_to = "ret"]
  /\ UNCHANGED restv

remove_keyword == remove_keyword_check \/ remove_keyword_remove

\* WakeWordDetector.reload_keywords (300-314)
reload_keywords_begin ==
  /\ det.backend = "porcupine"
  /\ OwnerAt("idle")
  /\ det.ncalls < MaxReconfigs
  /\ \E keywords \in KeywordLists :
       det' = [det EXCEPT !.call = [op |-> "reload_keywords", name |-> NoName,
                                    duplicate |-> FALSE],
                          !.ncalls = @ + 1, !.args = keywords,
                          !.pc = "td_del"]
  /\ UNCHANGED restv

\* self.keywords = []; self.detections = {}; for kw in keywords: ...;
\* self._initialize() (316-330)
reload_keywords_replace ==
  /\ OwnerAt("mutate")
  /\ det.call.op = "reload_keywords"
  /\ LET keywords == [k \in 1..Len(det.args) |->
                        [path |-> det.args[k].path,
                         name |-> KeywordName(det.args[k])]]
     IN det' = [det EXCEPT !.keywords = keywords,
                           !.detections = [n \in KeywordNames(keywords) |-> 0],
                           !.pc = "in_1", !.ret_to = "ret"]
  /\ UNCHANGED restv

reload_keywords == reload_keywords_begin \/ reload_keywords_replace

\* WakeWordDetector.process (157-167) on the capture thread
process_check ==
  /\ det.backend = "porcupine"
  /\ Constructed
  /\ det.ppc = "idle"
  /\ det.nprocess < MaxProcess
  /\ det' = IF ~det.initialized
              THEN [det EXCEPT !.nprocess = @ + 1, !.result = <<FALSE, NoName>>]
              ELSE [det EXCEPT !.nprocess = @ + 1, !.ppc = "pr_call"]
  /\ UNCHANGED restv

\* self.porcupine.process(audio_frame) (173): the capture thread enters the
\* engine; on None the AttributeError is caught (185-187)
process_call ==
  /\ det.ppc = "pr_call"
  /\ det' = IF det.engine = 0
              THEN [det EXCEPT !.ppc = "idle", !.result = <<FALSE, NoName>>]
              ELSE [det EXCEPT !.ppc = "pr_in", !.handle = det.engine]
  /\ UNCHANGED restv

\* the engine returns keyword_index, -1 when it heard nothing (173-187; an
\* exception is logged and ends as -1 does); an engine deleted under the
\* call returns anything, or takes the process down
process_return ==
  /\ det.ppc = "pr_in"
  /\ LET live == det.engines[det.handle].live
         done == [det EXCEPT !.ppc = "idle", !.handle = 0]
     IN \/ \E keyword_index \in KeywordIndices :
             /\ live => keyword_index < Len(det.engines[det.handle].built)
             /\ det' =
                  IF 0 <= keyword_index /\ keyword_index < Len(det.keywords)
                    THEN LET kw_name == det.keywords[keyword_index + 1].name
                         IN [done EXCEPT
                               !.detections = Put(@, kw_name,
                                  IF kw_name \in DOMAIN det.detections
                                    THEN det.detections[kw_name] + 1 ELSE 1),
                               !.result = <<TRUE, kw_name>>]
                    ELSE [done EXCEPT !.result = <<FALSE, NoName>>]
        \/ ~live /\ det' = [det EXCEPT !.ppc = "crashed"]
  /\ UNCHANGED restv

porcupine_process == process_check \/ process_call \/ process_return

\* =================================================== VoskWakeWordDetector
\* Strings are sequences of characters, so that "in" is the substring test
hola == <<"h", "o", "l", "a">>
Hola_ == <<"H", "o", "l", "a", " ">>
sol == <<"s", "o", "l">>
asistente == <<"a", "s", "i", "s", "t", "e", "n", "t", "e">>

\* str.lower() and str.strip()
LowerChar(c) == IF c = "H" THEN "h" ELSE c
Lower(str) == [i \in 1..Len(str) |-> LowerChar(str[i])]
RECURSIVE LStrip(_)
LStrip(str) ==
  IF str # <<>> /\ Head(str) = " " THEN LStrip(Tail(str)) ELSE str
RECURSIVE RStrip(_)
RStrip(str) ==
  IF str # <<>> /\ str[Len(str)] = " "
    THEN RStrip(SubSeq(str, 1, Len(str) - 1)) ELSE str
Strip(str) == LStrip(RStrip(str))

\* a in b, for strings
In(a, b) ==
  \E i \in 0..(Len(b) - Len(a)) : SubSeq(b, i + 1, i + Len(a)) = a

\* kw in text or text in kw or f"oye {kw}" in text or f"eh {kw}" in text
\* or f"hey {kw}" in text (632-637)
Matches(kw, text) ==
  \/ In(kw, text)
  \/ In(text, kw)
  \/ In(<<"o", "y", "e", " ">> \o kw, text)
  \/ In(<<"e", "h", " ">> \o kw, text)
  \/ In(<<"h", "e", "y", " ">> \o kw, text)

\* self._cooldown_seconds (545)
CooldownSeconds == 2
\* time.time() when the detector is constructed: long after the epoch
StartTime == CooldownSeconds
\* seconds between two calls of process
Elapsed == 0..CooldownSeconds

\* current_time - self._last_detection_time.get(kw, 0) >= self._cooldown_seconds
OffCooldown(d, kw, current_time) ==
  LET last_time == IF kw \in DOMAIN d.last_detection_time
                     THEN d.last_detection_time[kw] ELSE 0
  IN current_time - last_time >= CooldownSeconds

\* for kw in self.keywords (630-651): the index of the keyword reported,
\* the first from k on that matches text and is off its cooldown; 0 if none
RECURSIVE Reported(_, _, _, _)
Reported(d, text, current_time, k) ==
  IF k > Len(d.keywords) THEN 0
  ELSE IF Matches(d.keywords[k], text)
            /\ OffCooldown(d, d.keywords[k], current_time) THEN k
  ELSE Reported(d, text, current_time, k + 1)

\* the keywords arguments of __init__ (None, a string, or a list) and of
\* add_keyword and remove_keyword
VoskKeywordArgs == {hola, Hola_, sol}
VoskKeywordLists ==
  {<<>>, <<hola>>, <<Hola_>>, <<hola, sol>>, <<sol, Hola_>>, <<hola, Hola_>>}
\* what the recognizer hears in a final result
RecognisedTexts ==
  {<<>>, hola, sol, <<"o", "l">>, <<"o", "y", "e", " ">> \o hola,
   <<"s", "o", "l", "a">>}

\* a Vosk detector before __init__ ran
NewVosk(available, files, keywords) ==
  [NoDetector EXCEPT !.backend = "vosk", !.AVAILABLE = available,
                     !.files = files, !.args = keywords, !.pc = "new",
                     !.now = StartTime]

\* [kw.lower().strip() for kw in keywords]
Normalised(keywords) == [k \in 1..Len(keywords) |-> Strip(Lower(keywords[k]))]

\* VoskWakeWordDetector.__init__ and _initialize (536-600): the model
\* directory must exist and vosk must load it; the recognizer is built
\* without the keywords
vosk_new ==
  /\ det.backend = "vosk"
  /\ OwnerAt("new")
  /\ \E loaded \in BOOLEAN :
       LET keywords == IF det.args # <<>> THEN Normalised(det.args)
                       ELSE <<asistente>>
           names == {keywords[k] : k \in 1..Len(keywords)}
           ok == det.AVAILABLE /\ "model" \in det.files /\ loaded
       IN det' = [det EXCEPT
            !.keywords = keywords,
            !.detections = [n \in names |-> 0],
            !.last_detection_time = [n \in names |-> 0],
            !.engines = IF ok THEN <<[live |-> TRUE, built |-> <<>>]>>
                        ELSE <<>>,
            !.engine = IF ok THEN 1 ELSE 0,
            !.initialized = ok,
            !.pc = "idle"]
  /\ UNCHANGED restv

\* VoskWakeWordDetector.add_keyword (699-718)
vosk_add_keyword ==
  /\ det.backend = "vosk"
  /\ OwnerAt("idle")
  /\ det.ncalls < MaxReconfigs
  /\ \E arg \in VoskKeywordArgs :
       LET keyword == Strip(Lower(arg))
           duplicate == \E k \in 1..Len(det.keywords) : det.keywords[k] = keyword
           d == [det EXCEPT !.call = [op |-> "add_keyword", name |-> keyword,
                                      duplicate |-> duplicate],
                            !.ncalls = @ + 1]
       IN det' = IF duplicate
                   THEN Returned(d, "False")
                   ELSE Returned([d EXCEPT
                          !.keywords = Append(@, keyword),
                          !.detections = Put(@, keyword, 0),
                          !.last_detection_time = Put(@, keyword, 0)], "True")
  /\ UNCHANGED restv

\* list.remove(x): without the first element equal to x
RECURSIVE ListRemove(_, _)
ListRemove(list, x) ==
  IF list = <<>> THEN <<>>
  ELSE IF Head(list) = x THEN Tail(list)
  ELSE <<Head(list)>> \o ListRemove(Tail(list), x)

\* VoskWakeWordDetector.remove_keyword (720-743)
vosk_remove_keyword ==
  /\ det.backend = "vosk"
  /\ OwnerAt("idle")
  /\ det.ncalls < MaxReconfigs
  /\ \E arg \in VoskKeywordArgs :
       LET keyword == Strip(Lower(arg))
           d == [det EXCEPT !.call = [op |-> "remove_keyword",
                                      name |-> keyword, duplicate |-> FALSE],
                            !.ncalls = @ + 1]
       IN det' = IF Len(det.keywords) <= 1
                   THEN Returned(d, "False")
                 ELSE IF \E k \in 1..Len(det.keywords) : det.keywords[k] = keyword
                   THEN Returned([d EXCEPT
                          !.keywords = ListRemove(@, keyword),
                          !.detections = Pop(@, keyword),
                          !.last_detection_time = Pop(@, keyword)], "True")
                   ELSE Returned(d, "False")
  /\ UNCHANGED restv

\* VoskWakeWordDetector.process (602-670): accepted is what AcceptWaveform
\* returns, text the text of the final result; reports: every detection
\* reported so far, <<keyword, current_time>>
vosk_process ==
  /\ det.backend = "vosk"
  /\ Constructed
  /\ det.ppc = "idle"
  /\ det.nprocess < MaxProcess
  /\ IF ~det.initialized
       THEN det' = [det EXCEPT !.nprocess = @ + 1, !.accepted = FALSE,
                               !.text = <<>>, !.result = <<FALSE, NoName>>]
       ELSE \E elapsed \in Elapsed, accepted \in BOOLEAN,
               heard \in RecognisedTexts :
         LET current_time == det.now + elapsed
             text == Strip(Lower(heard))
             k == IF accepted THEN Reported(det, text, current_time, 1) ELSE 0
             d == [det EXCEPT !.now = current_time, !.nprocess = @ + 1,
                              !.accepted = accepted,
                              !.text = IF accepted THEN text ELSE <<>>]
         IN det' = IF k = 0
                     THEN [d EXCEPT !.result = <<FALSE, NoName>>]
                     ELSE LET kw == det.keywords[k]
                          IN [d EXCEPT
                                !.detections = Put(@, kw,
                                   IF kw \in DOMAIN det.detections
                                     THEN det.detections[kw] + 1 ELSE 1),
                                !.last_detection_time = Put(@, kw, current_time),
                                !.result = <<TRUE, kw>>,
                                !.reports = Append(@, <<kw, current_time>>)]
  /\ UNCHANGED restv

\* ================================================ WakeWordEngine.__init__
\* A path is its stem and its extension; str.endswith on the extension
EndsWith(path, suffix) == path # <<>> /\ path[Len(path)] = suffix

\* the keywords argument: no keyword, a first entry without "path", or a
\* first entry whose file has this or that extension
KeywordArgs ==
  {<<>>, <<[name |-> "a"]>>,
   <<[path |-> <<"a", ".ppn">>, name |-> "a"]>>,
   <<[path |-> <<"a", ".tflite">>, name |-> "a"]>>,
   <<[path |-> <<"a", ".mar">>, name |-> "a"]>>,
   <<[path |-> <<"a", ".bin">>, name |-> "a"]>>,
   <<[path |-> <<"a", ".tflite">>, name |-> "a"],
     [path |-> <<"b", ".ppn">>, name |-> "b"]>>}
WakeWordArgs == {<<>>, <<"asistente">>}
EngineArgs == {"auto", "porcupine", "openwakeword", "vosk"}

\* the arguments of WakeWordEngine.__init__ and the flags of the module,
\* <<VOSK_AVAILABLE, PORCUPINE_AVAILABLE, OPENWAKEWORD_AVAILABLE>>
EngineArguments(engine, wake_words, keywords, access_key, flags) ==
  [state |-> "args", engine |-> engine, wake_words |-> wake_words,
   keywords |-> keywords, access_key |-> access_key,
   VOSK_AVAILABLE |-> flags[1], PORCUPINE_AVAILABLE |-> flags[2],
   OPENWAKEWORD_AVAILABLE |-> flags[3], engine_type |-> engine]

\* the fallback of the auto-detection (808-816)
ByAvailability(a) ==
  IF a.VOSK_AVAILABLE THEN "vosk"
  ELSE IF a.access_key /\ a.PORCUPINE_AVAILABLE THEN "porcupine"
  ELSE IF a.OPENWAKEWORD_AVAILABLE THEN "openwakeword"
  ELSE "vosk"

\* self.engine_type after the auto-detection (781, 796-819)
EngineType(a) ==
  IF a.engine # "auto" THEN a.engine
  ELSE IF a.wake_words # <<>> THEN "vosk"
  ELSE IF a.keywords # <<>> /\ "path" \in DOMAIN a.keywords[1]
    THEN LET first_path == a.keywords[1].path
         IN IF EndsWith(first_path, ".tflite") \/ EndsWith(first_path, ".mar")
              THEN "openwakeword"
            ELSE IF EndsWith(first_path, ".ppn") THEN "porcupine"
            ELSE ByAvailability(a)
  ELSE "vosk"

\* the creation of the detector (821-860): it is constructed, or __init__
\* raises
Construction(a, engine_type) ==
  IF engine_type = "vosk"
    THEN IF ~a.VOSK_AVAILABLE THEN "ValueError" ELSE "constructed"
  ELSE IF engine_type = "openwakeword" THEN "constructed"
  ELSE IF ~a.access_key THEN "ValueError"
  ELSE IF \E k \in 1..Len(a.keywords) : "path" \notin DOMAIN a.keywords[k]
    THEN "KeyError"
  ELSE IF \A k \in 1..Len(a.keywords) : ~EndsWith(a.keywords[k].path, ".ppn")
    THEN "ValueError"
  ELSE "constructed"

\* WakeWordEngine.__init__ (755-860)
wakeword_engine_new ==
  /\ wwe.state = "args"
  /\ wwe' = [wwe EXCEPT !.engine_type = EngineType(wwe),
                        !.state = Construction(wwe, EngineType(wwe))]
  /\ UNCHANGED <<chunk_size, mode, asst, capv, ww_is_running, stack, loc, envv,
                 ep, hist, vad, det>>

\* =================================================== OpenWakeWordDetector
\* an openWakeWord detector before __init__ ran
NewOpenWakeWord(available, files, keywords) ==
  [NoDetector EXCEPT !.backend = "openwakeword", !.AVAILABLE = available,
                     !.files = files, !.args = keywords, !.pc = "new"]

\* [x for x in list if x in files], for the paths of the keywords
RECURSIVE ValidPaths(_, _)
ValidPaths(keywords, files) ==
  IF keywords = <<>> THEN <<>>
  ELSE IF Head(keywords).path \in files
    THEN <<Head(keywords)>> \o ValidPaths(Tail(keywords), files)
  ELSE ValidPaths(Tail(keywords), files)

\* OpenWakeWordDetector.__init__ and _initialize (362-436): the model is
\* built from the keyword files that exist
openwakeword_new ==
  /\ det.backend = "openwakeword"
  /\ OwnerAt("new")
  /\ \E loaded \in BOOLEAN :
       LET keywords == [k \in 1..Len(det.args) |->
                          [path |-> det.args[k].path,
                           name |-> KeywordName(det.args[k])]]
           valid_paths == ValidPaths(keywords, det.files)
           ok == det.AVAILABLE /\ valid_paths # <<>> /\ loaded
       IN det' = [det EXCEPT
            !.keywords = keywords,
            !.detections = [n \in KeywordNames(keywords) |-> 0],
            !.engines = IF ok THEN <<[live |-> TRUE, built |-> valid_paths]>>
                        ELSE <<>>,
            !.engine = IF ok THEN 1 ELSE 0,
            !.initialized = ok,
            !.pc = "idle"]
  /\ UNCHANGED restv

\* ================================ WakeWordEngine: changes of the keywords
Backends == {"porcupine", "openwakeword", "vosk"}

\* the methods among add_keyword, remove_keyword and reload_keywords that
\* the class of the detector defines (215-332, 340-511, 699-743)
Methods(backend) ==
  CASE backend = "porcupine" ->
         {"add_keyword", "remove_keyword", "reload_keywords"}
    [] backend = "vosk" -> {"add_keyword", "remove_keyword"}
    [] OTHER -> {}

\* how many positional arguments the method takes
\* (215: path, sensitivity=0.5, name=None; 699: keyword)
Parameters(backend, op) ==
  IF backend = "porcupine" /\ op = "add_keyword" THEN 1..3 ELSE {1}

\* how many WakeWordEngine passes (920, 924, 928)
Arguments(op) == IF op = "add_keyword" THEN 3 ELSE 1

\* self.detector.<op>(...) raises before the method is entered
Raises(backend, op) ==
  IF op \notin Methods(backend) THEN "AttributeError"
  ELSE IF Arguments(op) \notin Parameters(backend, op) THEN "TypeError"
  ELSE "no"

\* the call ends in the exception
engine_raise(op) ==
  /\ OwnerAt("idle")
  /\ det.ncalls < MaxReconfigs
  /\ Raises(det.backend, op) # "no"
  /\ det' = Returned([det EXCEPT !.call = [op |-> op, name |-> NoName,
                                           duplicate |-> FALSE],
                                 !.ncalls = @ + 1],
                     Raises(det.backend, op))
  /\ UNCHANGED restv

\* WakeWordEngine.add_keyword (918-920)
engine_add_keyword ==
  \/ engine_raise("add_keyword")
  \/ Raises(det.backend, "add_keyword") = "no" /\ add_keyword_check

\* WakeWordEngine.remove_keyword (922-924)
engine_remove_keyword ==
  \/ engine_raise("remove_keyword")
  \/ /\ Raises(det.backend, "remove_keyword") = "no"
     /\ (remove_keyword_check \/ vosk_remove_keyword)

\* WakeWordEngine.reload_keywords (926-928)
engine_reload_keywords ==
  \/ engine_raise("reload_keywords")
  \/ Raises(det.backend, "reload_keywords") = "no" /\ reload_keywords_begin

\* ================================================= a caller of AudioCapture
\* An observer registered by a caller, as vad_callback of
\* tests/test_audio.py (63-81): it returns or raises
observer(s) ==
  /\ At(s, "ob_1")
  /\ \E raised \in BOOLEAN :
       /\ hist' = [hist EXCEPT !.log =
                     Append(@, <<loc[s].c + 1, loc[s].audio_data[1], raised>>)]
       /\ IF raised THEN Raise(s) ELSE Return(s)
  /\ UNCHANGED <<cfgv, asst, capv, ww_is_running, loc, envv, ep>>

\* the public operations of AudioCapture and their first statements
Entry(op) ==
  CASE op = "start" -> "st_1"
    [] op = "stop" -> "cs_1"
    [] op = "get_chunk" -> "gc_1"
    [] op = "get_buffer" -> "gb_1"
    [] op = "clear_buffer" -> "cb_1"
    [] op = "register_callback" -> "rc_1"

\* requested lengths of get_buffer, in sample periods, and None
Durations == {None} \cup (0..(BufferSize + 1))

\* The caller makes one of the public calls ops, inside try / except Exception
client_call(ops) ==
  /\ At(0, "client")
  /\ \E op \in ops, d \in Durations :
       /\ op = "register_callback" => Len(callbacks) < MaxObservers
       /\ op # "get_buffer" => d = 0
       /\ stack' = [stack EXCEPT ![0] = <<Entry(op), "cl_ok", "cl_exc">> \o @]
       /\ loc' = [loc EXCEPT ![0].duration = d]
       /\ hist' = [hist EXCEPT !.call = [op |-> op, before |-> is_running,
                                         raised |-> FALSE, done |-> FALSE]]
  /\ UNCHANGED <<cfgv, asst, capv, ww_is_running, envv, ep>>

\* the call returned
client_ok ==
  /\ At(0, "cl_ok")
  /\ stack' = [stack EXCEPT ![0] = Tail(Tail(@))]
  /\ hist' = [hist EXCEPT !.call.done = TRUE]
  /\ UNCHANGED <<cfgv, asst, capv, ww_is_running, loc, envv, ep>>

\* the call raised
client_except ==
  /\ At(0, "cl_exc")
  /\ Return(0)
  /\ hist' = [hist EXCEPT !.call.done = TRUE, !.call.raised = TRUE]
  /\ UNCHANGED <<cfgv, asst, capv, ww_is_running, loc, envv, ep>>

client(ops) == client_call(ops) \/ client_ok \/ client_except

\* ============================================================ specification
Step(t) ==
  \/ start(t) \/ capture_stop(t) \/ get_chunk(t)
  \/ stop(t) \/ start_listening(t) \/ capture_with_vad(t)
  \/ process_audio(t) \/ speak(t)
  \/ wakeword_start(t) \/ wakeword_callback(t)

\* one step of the program itself, on any of its threads
Program ==
  \/ \E t \in Threads : Step(t)
  \/ \E s \in Streams : audio_callback(s)
  \/ main \/ run \/ run_once

\* the program, and the signals the operating system may deliver to it
Next == Program \/ signal_handler

Spec == Init /\ [][Next]_vars

\* The program embedded in a caller that may call the public
\* WakeWordEngine.stop at any time, and receives no signal: Assistant.run
\* then never leaves its loop, so run_loop has no step
NextWakeStop ==
  \/ \E t \in Threads : Step(t)
  \/ \E s \in Streams : audio_callback(s)
  \/ main \/ run_begin \/ run_wakeword \/ run_once
  \/ wakeword_stop

SpecWakeStop == Init /\ [][NextWakeStop]_vars

\* The program started with --once: only the main thread listens, and the
\* stream callback has no observer
InitOnce == Init /\ mode = "once"

NextOnce ==
  \/ start(0) \/ capture_stop(0) \/ get_chunk(0)
  \/ stop(0) \/ start_listening(0) \/ capture_with_vad(0)
  \/ process_audio(0) \/ speak(0)
  \/ \E s \in Streams : audio_callback_extend(s)
  \/ main \/ run_once
  \/ signal_handler

SpecOnce == InitOnce /\ [][NextOnce]_vars

\* AudioCapture alone, driven by a caller that makes public calls in any
\* order (as tests/test_audio.py does) while the stream delivers chunks
InitCapture ==
  /\ chunk_size \in ChunkSizes
  /\ mode = "client"
  /\ vad = DefaultVAD
  /\ det = NoDetector
  /\ wwe = NoEngine
  /\ running = FALSE
  /\ listening = FALSE
  /\ is_running = FALSE
  /\ stream = 0
  /\ sstate = [s \in Streams |-> "none"]
  /\ nstreams = 0
  /\ callbacks = <<>>
  /\ buffer = <<>>
  /\ ww_is_running = FALSE
  /\ stack = [t \in Threads |-> IF t = 0 THEN <<"client">> ELSE <<>>]
  /\ loc = [t \in Threads |-> InitLoc]
  /\ signals = 0 /\ nreads = 0
  /\ delivered = 0
  /\ ep = [t \in Threads |-> InitEp]
  /\ hist = InitHist

\* the device may fail
InitClient == InitCapture /\ failures = 0

\* the device does not fail
InitObservers == InitCapture /\ failures = MaxFailures

\* a caller that starts the capture and reads and clears the ring buffer
BufferCalls == {"start", "get_buffer", "clear_buffer"}

NextBuffer ==
  \/ client(BufferCalls)
  \/ start(0) \/ get_buffer(0) \/ clear_buffer(0)
  \/ \E s \in Streams : audio_callback_extend(s)

SpecBuffer == InitClient /\ [][NextBuffer]_vars

\* a caller that registers observers and starts and stops the capture; no
\* call raises, as the device does not fail
ObserverCalls == {"register_callback", "start", "stop"}

NextObservers ==
  \/ client_call(ObserverCalls) \/ client_ok
  \/ register_callback(0) \/ start(0) \/ capture_stop(0)
  \/ \E s \in Streams : audio_callback(s) \/ observer(s)

SpecObservers == InitObservers /\ [][NextObservers]_vars

\* a caller that starts, stops and reads the device
DeviceCalls == {"start", "stop", "get_chunk"}

NextDevice ==
  \/ client(DeviceCalls)
  \/ start(0) \/ capture_stop(0) \/ get_chunk(0)
  \/ \E s \in Streams : audio_callback_extend(s)

SpecDevice == InitClient /\ [][NextDevice]_vars

\* A VAD constructed with any arguments, then used frame by frame
SampleRates == {8000, 16000, 32000, 48000, 44100}
FrameDurations == {10, 20, 30, 25}
Aggressivenesses == {-1, 0, 3, 4}
\* silence_duration, in milliseconds
SilenceDurations == {0, 20, 30, 60}

InitVAD ==
  /\ chunk_size \in ChunkSizes
  /\ mode = "vad"
  /\ \E sr \in SampleRates, ag \in Aggressivenesses, fd \in FrameDurations,
        sd \in SilenceDurations : vad = Unconstructed(sr, ag, fd, sd)
  /\ det = NoDetector
  /\ wwe = NoEngine
  /\ running = FALSE
  /\ listening = FALSE
  /\ is_running = FALSE
  /\ stream = 0
  /\ sstate = [s \in Streams |-> "none"]
  /\ nstreams = 0
  /\ callbacks = <<>>
  /\ buffer = <<>>
  /\ ww_is_running = FALSE
  /\ stack = [t \in Threads |-> <<>>]
  /\ loc = [t \in Threads |-> InitLoc]
  /\ signals = 0 /\ failures = 0 /\ nreads = 0
  /\ delivered = 0
  /\ ep = [t \in Threads |-> InitEp]
  /\ hist = InitHist

NextVAD == vad_init \/ detect_speech_end \/ vad_reset

SpecVAD == InitVAD /\ [][NextVAD]_vars

\* A VAD that segments whole streams
NextSegments == vad_init \/ get_speech_frames

SpecSegments == InitVAD /\ [][NextSegments]_vars


\* A Porcupine detector constructed with any keyword list, reconfigured by
\* its owner
InitDetector ==
  /\ chunk_size = 2 * FrameSize
  /\ mode = "detector"
  /\ vad = DefaultVAD
  /\ wwe = NoEngine
  /\ running = FALSE
  /\ listening = FALSE
  /\ is_running = FALSE
  /\ stream = 0
  /\ sstate = [s \in Streams |-> "none"]
  /\ nstreams = 0
  /\ callbacks = <<>>
  /\ buffer = <<>>
  /\ ww_is_running = FALSE
  /\ stack = [t \in Threads |-> <<>>]
  /\ loc = [t \in Threads |-> InitLoc]
  /\ signals = 0 /\ failures = 0 /\ nreads = 0
  /\ delivered = 0
  /\ ep = [t \in Threads |-> InitEp]
  /\ hist = InitHist

InitPorcupine ==
  /\ InitDetector
  /\ \E available \in BOOLEAN, files \in FileSets, keywords \in KeywordLists :
       det = NewPorcupine(available, files, keywords)

Reconfigure ==
  \/ add_keyword \/ remove_keyword \/ reload_keywords
  \/ teardown \/ initialize \/ reconfigure_return

\* A Porcupine detector of an installation where pvporcupine is present,
\* configured with one keyword or two, reconfigured by its owner while the
\* capture thread calls process
ListeningLists ==
  {<<[path |-> "a", name |-> NoName]>>,
   <<[path |-> "a", name |-> NoName], [path |-> "b", name |-> NoName]>>}
InitListening ==
  /\ InitDetector
  /\ \E files \in FileSets, keywords \in ListeningLists :
       det = NewPorcupine(TRUE, files, keywords)

NextPorcupine == porcupine_new \/ Reconfigure \/ porcupine_process

SpecPorcupine == InitListening /\ [][NextPorcupine]_vars

\* a Vosk detector constructed with any keywords
ModelFiles == {{"model"}, {}}
InitVosk ==
  /\ InitDetector
  /\ \E available \in BOOLEAN, files \in ModelFiles,
        keywords \in VoskKeywordLists :
       det = NewVosk(available, files, keywords)

\* Either detector, constructed and reconfigured by its owner
InitKeywords == InitPorcupine \/ InitVosk

NextKeywords ==
  \/ porcupine_new \/ Reconfigure
  \/ vosk_new \/ vosk_add_keyword \/ vosk_remove_keyword

SpecKeywords == InitKeywords /\ [][NextKeywords]_vars

\* A Vosk detector that listens while its owner adds and removes keywords
NextVosk ==
  vosk_new \/ vosk_add_keyword \/ vosk_remove_keyword \/ vosk_process

SpecVosk == InitVosk /\ [][NextVosk]_vars

\* WakeWordEngine constructed with any arguments where any of the three
\* packages is installed or not
InitEngine ==
  /\ chunk_size = 2 * FrameSize
  /\ mode = "engine"
  /\ vad = DefaultVAD
  /\ det = NoDetector
  /\ \E engine \in EngineArgs, wake_words \in WakeWordArgs,
        keywords \in KeywordArgs, access_key \in BOOLEAN,
        flags \in BOOLEAN \X BOOLEAN \X BOOLEAN :
       wwe = EngineArguments(engine, wake_words, keywords, access_key, flags)
  /\ running = FALSE
  /\ listening = FALSE
  /\ is_running = FALSE
  /\ stream = 0
  /\ sstate = [s \in Streams |-> "none"]
  /\ nstreams = 0
  /\ callbacks = <<>>
  /\ buffer = <<>>
  /\ ww_is_running = FALSE
  /\ stack = [t \in Threads |-> <<>>]
  /\ loc = [t \in Threads |-> InitLoc]
  /\ signals = 0 /\ failures = 0 /\ nreads = 0
  /\ delivered = 0
  /\ ep = [t \in Threads |-> InitEp]
  /\ hist = InitHist

NextEngine == wakeword_engine_new

SpecEngine == InitEngine /\ [][NextEngine]_vars

\* WakeWordEngine over each of the three detectors, its keywords changed
\* through the methods of the engine
InitBackends ==
  /\ InitDetector
  /\ \/ \E files \in FileSets, keywords \in ListeningLists :
          \/ det = NewPorcupine(TRUE, files, keywords)
          \/ det = NewOpenWakeWord(TRUE, files, keywords)
     \/ \E keywords \in VoskKeywordLists : det = NewVosk(TRUE, {"model"}, keywords)

NextBackends ==
  \/ porcupine_new \/ openwakeword_new \/ vosk_new
  \/ engine_add_keyword \/ engine_remove_keyword \/ engine_reload_keywords
  \/ add_keyword_append \/ remove_keyword_remove \/ reload_keywords_replace
  \/ teardown \/ initialize \/ reconfigure_return

SpecBackends == InitBackends /\ [][NextBackends]_vars

\* ================================================================== claims
\* statements of the while loop body of _capture_with_vad: a thread with one
\* of them on its stack has passed the loop test and not yet left the loop
LoopLabels == {"cv_got", "cv_for", "cv_frame", "cv_chk"}

\* statements of start_listening after its guard and of _capture_with_vad
ListeningLabels == LoopLabels \cup
  {"sl_2", "sl_3", "cv_reset", "cv_while", "cv_after", "cv_ret"}

\* t detected the end of speech and is transcribing, answering or playing
Answering(t) == ep[t].eos /\ OnStack(t, {"cv_chk", "cv_after", "cv_ret"})

HasSpeech(h) == \E k \in 1..Len(h) : h[k]

RECURSIVE TrailingSilence(_)
TrailingSilence(h) ==
  IF h = <<>> \/ h[Len(h)] THEN 0
  ELSE 1 + TrailingSilence(SubSeq(h, 1, Len(h) - 1))

\* the exit condition of the specification, on the classifications fed so far
ExitCondition(h) == HasSpeech(h) /\ TrailingSilence(h) = SilenceThreshold

\* statements of _capture_with_vad up to the exit of its loop
CapturingLabels == LoopLabels \cup {"cv_reset", "cv_while"}
Capturing(t) == OnStack(t, CapturingLabels)

\* C1: at most one thread executes the utterance capture of
\* _capture_with_vad at any time
C1_SingleFlight == Cardinality({t \in Threads : Capturing(t)}) <= 1

\* C2: while one thread answers a captured utterance (after the end of
\* speech, until playback returns) no other thread has started an utterance
\* capture that runs at the same time
C2_NoCaptureWhileAnswering ==
  \A t1, t2 \in Threads : (t1 # t2 /\ Answering(t1)) => ~Capturing(t2)

\* C3: the wake-word observer hands the utterance capture and the answer to
\* another worker: a stream callback thread never executes them itself
C3_ObserverDoesNotBlock ==
  \A s \in Streams : ~OnStack(s, ListeningLabels)

\* C4: an episode cancelled by stop before the end of speech transcribes
\* nothing and synthesizes nothing
C4_CancelledEmitsNothing ==
  \A t \in Threads :
    ep[t].cancelled => (ep[t].transcribed = <<>> /\ ep[t].synth = 0)

\* C5: the loop declares the end of speech exactly at the first frame at
\* which a speech frame has been accumulated and the run of silent frames
\* since the last speech frame equals silence_threshold
C5_EndOfSpeechTiming ==
  \A t \in Threads :
    ep[t].started =>
      /\ ep[t].eos <=> ExitCondition(ep[t].frames)
      /\ \A k \in 1..(Len(ep[t].frames) - 1) :
           ~ExitCondition(SubSeq(ep[t].frames, 1, k))
\* an episode that began with silence, then speech, and ended on the
\* silence after it
C5_Witness ==
  \E t \in Threads :
    /\ ep[t].started /\ ep[t].eos
    /\ Len(ep[t].frames) = SilenceThreshold + 2
    /\ ~ep[t].frames[1] /\ ep[t].frames[2]

\* C6: an episode without any speech frame ends once silence_threshold
\* silent frames were classified: no further frame is classified
C6_SilentEpisodeEnds ==
  \A t \in Threads :
    (ep[t].started /\ ~HasSpeech(ep[t].frames))
      => Len(ep[t].frames) <= SilenceThreshold

\* C7: an episode that is over transcribed exactly once, the concatenation
\* of its speech frames, if it has any; else it transcribed nothing and
\* reported that no speech was detected
EpisodeOver(t) ==
  ep[t].started /\ (Top(t) = "cv_ret" \/ ~OnStack(t, ListeningLabels))
C7_OneOutcomePerEpisode ==
  \A t \in Threads :
    EpisodeOver(t) =>
      IF ep[t].speech # <<>>
        THEN ep[t].transcribed = <<Concatenate(ep[t].speech)>>
        ELSE ep[t].transcribed = <<>> /\ ep[t].nospeech

\* C8: once Assistant.stop has returned, the input stream is not opened or
\* started again
C8_NoStreamAfterStop ==
  [][(hist.stop_returned /\ nstreams > 0) =>
       /\ nstreams' = nstreams
       /\ \A s \in Streams : sstate'[s] = "active" => sstate[s] = "active"]_vars

\* C9: once Assistant.stop or WakeWordEngine.stop has returned, no frame is
\* passed to the detector's process
ProcessCall(t) ==
  /\ At(t, "ww_for")
  /\ Len(Slice(loc[t].audio_data, loc[t].j, WWFrameLength)) = WWFrameLength
  /\ (stack'[t] # stack[t] \/ loc'[t] # loc[t])
C9_NoDetectionAfterStop ==
  [][(hist.stop_returned \/ hist.ww_stopped) =>
       \A s \in Streams : ~ProcessCall(s)]_vars

\* C10: once running is cleared a listening loop classifies at most one
\* further frame and performs at most one further read
C10_PromptCancellation ==
  \A t \in Threads :
    ep[t].started => (ep[t].late_frames <= 1 /\ ep[t].late_reads <= 1)
\* the last n elements of a sequence of at least n elements
LastN(a, n) == [k \in 1..n |-> a[Len(a) - n + k]]

C12_SnapshotIsTail ==
  hist.snap.taken =>
    LET content == hist.snap.before
        duration == hist.snap.duration
    IN hist.snap.result =
         IF duration = None THEN content
         ELSE LastN(content, Min(duration, Len(content)))

\* the observers invoked with the chunk whose first sample is x, in order
InvokedWith(x) ==
  LET calls == SelectSeq(hist.log, LAMBDA e : e[2] = x)
  IN [k \in 1..Len(calls) |-> calls[k][1]]

\* the first samples of the chunks handed to observers, in invocation order
ChunksInLog == [k \in 1..Len(hist.log) |-> hist.log[k][2]]

\* the stream thread s is between two observers of the chunk it delivers
BetweenObservers(s) == stack[s] = <<"ac_next">>

\* C13: every captured chunk is handed to each registered observer exactly
\* once, in registration order, and chunks reach the observers in capture
\* order, whether or not an observer raises; a raising observer neither
\* keeps the chunk out of the ring buffer nor ends the stream's callbacks
C13_ObserverIsolation ==
  /\ [](/\ \A s \in Streams : Top(s) # "crashed"
        /\ \A s \in Streams :
             BetweenObservers(s) =>
               InvokedWith(loc[s].audio_data[1]) = [k \in 1..(loc[s].c + 1) |-> k]
        /\ \A k \in 1..(Len(hist.log) - 1) :
             ChunksInLog[k] <= ChunksInLog[k + 1]
        /\ \A k \in 1..Len(hist.log) :
             \E n \in 1..Len(hist.pushed) : hist.pushed[n] = ChunksInLog[k])
  /\ [][\A s \in Streams :
          (BetweenObservers(s) /\ stack'[s] = <<>>) =>
            InvokedWith(loc[s].audio_data[1]) = [k \in 1..Len(callbacks) |-> k]]_vars

\* the first of two observers raised on the first chunk; the second
\* observer and the next chunk were served all the same
C13_Witness ==
  /\ Len(hist.log) >= 4
  /\ hist.log[1][3]
  /\ hist.log[2] = <<2, hist.log[1][2], FALSE>>
  /\ hist.log[3][2] > hist.log[1][2]
  /\ hist.log[4][1] = 2
  /\ \A s \in Streams : stack[s] = <<>>

\* the input streams that were opened and not closed
OpenStreams == {s \in Streams : sstate[s] \in {"opened", "active", "stopped"}}

\* the caller of AudioCapture is between two calls
BetweenCalls == At(0, "client")

\* C14: start while running and stop while not running change nothing, and
\* after any sequence of start, stop and get_chunk calls at most one input
\* stream is open, the one of self.stream, and exactly when is_running holds
C14_StartStopIdempotent ==
  /\ [](BetweenCalls =>
          /\ Cardinality(OpenStreams) <= 1
          /\ is_running <=> OpenStreams # {}
          /\ is_running => OpenStreams = {stream})
  /\ [][(At(0, "st_1") /\ is_running /\ stack'[0] # stack[0]) =>
          (capv' = capv /\ stack'[0] = Tail(stack[0]))]_vars
  /\ [][(At(0, "cs_1") /\ ~is_running /\ stack'[0] # stack[0]) =>
          (capv' = capv /\ stack'[0] = Tail(stack[0]))]_vars

\* start was called while the capture was running, and returned
C14_Witness ==
  /\ BetweenCalls
  /\ hist.call = [op |-> "start", before |-> TRUE, raised |-> FALSE, done |-> TRUE]
  /\ OpenStreams = {1}
  /\ sstate[1] = "active"

\* C15: when the device cannot be opened or the stream cannot be started,
\* start raises to its caller and is_running is false after the call, as it
\* was before
C15_FailedStartNotRunning ==
  (BetweenCalls /\ hist.call.op = "start" /\ hist.call.raised) =>
    (~is_running /\ is_running = hist.call.before)

\* C16: get_chunk always returns to its caller, with a chunk or with None;
\* it never raises
C16_GetChunkNeverRaises ==
  (hist.call.op = "get_chunk" /\ hist.call.done) =>
    (~hist.call.raised /\ (loc[0].got \/ loc[0].audio = <<>>))

\* the last detect_speech_end call was on a silent frame that is the n-th
\* of the silent frames following the last speech frame since the reset
NthSilentAfterSpeech(h, n) ==
  /\ HasSpeech(h)
  /\ ~h[Len(h)]
  /\ TrailingSilence(h) = n

\* two calls that returned true are separated by a silent frame followed
\* by a speech frame: they belong to different utterances
OncePerUtterance(all) ==
  \A i, j \in 1..Len(all) :
    (i < j /\ all[i][2] /\ all[j][2]) =>
      \E k \in i..(j - 1), m \in (i + 1)..j : k < m /\ ~all[k][1] /\ all[m][1]

\* C17: detect_speech_end returns true exactly on the call that is the
\* silence_threshold-th consecutive silent frame after the last speech frame
\* seen since the last reset, false on every other call, and so at most
\* once per utterance
C17_SpeechEndExactly ==
  vad.all # <<>> =>
    /\ vad.ret <=> NthSilentAfterSpeech(vad.calls, vad.silence_threshold)
    /\ OncePerUtterance(vad.all)

\* C18: a constructed VAD has silence_threshold >= 1, both counters are 0
\* after a detect_speech_end call that returned true, and between calls
\* never speech_frames > 0 with silence_frames >= silence_threshold
C18_ThresholdPositive ==
  vad.state = "ok" =>
    /\ vad.silence_threshold >= 1
    /\ (vad.all # <<>> /\ vad.all[Len(vad.all)][2]) =>
         (vad.speech_frames = 0 /\ vad.silence_frames = 0)
    /\ ~(vad.speech_frames > 0 /\ vad.silence_frames >= vad.silence_threshold)

\* the arguments the specification accepts
ValidArguments(v) ==
  /\ v.frame_duration_ms = 10 \/ v.frame_duration_ms = 20
       \/ v.frame_duration_ms = 30
  /\ v.sample_rate = 8000 \/ v.sample_rate = 16000
       \/ v.sample_rate = 32000 \/ v.sample_rate = 48000
  /\ v.aggressiveness \in 0..3

\* C19: the construction of a VAD fails when the frame duration is not 10,
\* 20 or 30 ms or the sample rate is not 8000, 16000, 32000 or 48000 Hz,
\* and succeeds for every valid combination (aggressiveness in 0..3), with
\* frame_size = sample_rate * frame_duration_ms / 1000
C19_ConstructionValidates ==
  vad.state # "new" =>
    /\ vad.state = "ok" <=> ValidArguments(vad)
    /\ vad.state = "ok" =>
         vad.frame_size * 1000 = vad.sample_rate * vad.frame_duration_ms

\* a valid VAD was constructed with a 20 ms frame at 32 kHz: 640 samples
C19_Witness ==
  /\ vad.state = "ok"
  /\ vad.sample_rate = 32000
  /\ vad.frame_duration_ms = 20
  /\ vad.frame_size = 640

\* the maximal runs of speech frames of a classification, as pairs
\* <<first frame, frame after the last>> with 0-based frame numbers
Runs(classes) ==
  {r \in (0..Len(classes)) \X (0..Len(classes)) :
     /\ r[1] < r[2]
     /\ \A k \in (r[1] + 1)..r[2] : classes[k]
     /\ r[1] = 0 \/ ~classes[r[1]]
     /\ r[2] = Len(classes) \/ ~classes[r[2] + 1]}

\* C20: get_speech_frames returns exactly the maximal runs of consecutive
\* speech frames among the len(stream) // frame_size full frames, as
\* increasing, non-empty, disjoint and non-adjacent (start, end) pairs; a
\* run open at the end is closed at the number of full frames
C20_SpeechSegmentsAreRuns ==
  vad.seg.pc = "done" =>
    LET segs == vad.seg.speech_segments
        classes == vad.seg.classes
    IN /\ Len(classes) * vad.frame_size <= vad.seg.length
       /\ (Len(classes) + 1) * vad.frame_size > vad.seg.length
       /\ {segs[k] : k \in 1..Len(segs)} = Runs(classes)
       /\ \A k \in 1..Len(segs) : segs[k][1] < segs[k][2]
       /\ \A k \in 1..(Len(segs) - 1) : segs[k][2] < segs[k + 1][1]

\* two runs, the second open at the end of a stream with a partial frame
C20_Witness ==
  /\ vad.seg.pc = "done"
  /\ vad.seg.length > vad.seg.num_frames * vad.frame_size
  /\ Len(vad.seg.speech_segments) = 2
  /\ vad.seg.speech_segments[2][2] = vad.seg.num_frames
  /\ vad.seg.speech_segments[1][1] > 0

\* the identifiers of the keywords of detector d
ConfiguredNames(d) ==
  IF d.backend = "vosk" THEN {d.keywords[k] : k \in 1..Len(d.keywords)}
  ELSE KeywordNames(d.keywords)

\* C21: add_keyword with a name that is already configured returns False
\* and changes nothing: the keyword list, the detection counters,
\* is_available() and the engine instance are what they were, and the
\* engine is not torn down
DuplicateAdd ==
  /\ det.pc = "idle"
  /\ det'.ncalls = det.ncalls + 1
  /\ det'.call.op = "add_keyword"
  /\ det'.call.name \in ConfiguredNames(det)
C21_DuplicateAddRejected ==
  [][DuplicateAdd =>
       /\ det'.pc = "idle" /\ det'.ret = "False"
       /\ det'.keywords = det.keywords
       /\ det'.detections = det.detections
       /\ det'.last_detection_time = det.last_detection_time
       /\ det'.initialized = det.initialized
       /\ det'.engine = det.engine
       /\ det'.engines = det.engines]_vars

\* a running detector has refused a name it already had
C21_Witness ==
  /\ det.pc = "idle"
  /\ det.call.op = "add_keyword" /\ det.call.duplicate
  /\ det.ret = "False"
  /\ det.initialized /\ det.engine # 0 /\ det.engines[det.engine].live

\* C22: once the detector is constructed, and after every add_keyword,
\* remove_keyword and reload_keywords call, no two keywords of the list have
\* the same identifier and the detection counters have exactly one entry
\* per configured keyword
C22_KeywordsUnique ==
  (det.pc = "idle" /\ det.backend # "none") =>
     /\ Cardinality(ConfiguredNames(det)) = Len(det.keywords)
     /\ DOMAIN det.detections = ConfiguredNames(det)

\* C23: the detector is never left partially initialized.  After every
\* add_keyword, remove_keyword and reload_keywords call, whatever it
\* returned, is_available() is true iff exactly one engine instance is live,
\* it is self.porcupine and it was built from the whole current keyword
\* list; no instance is created before the previous one is released; and
\* process on an unavailable detector returns (False, None) at once
LiveEngines(d) == {i \in 1..Len(d.engines) : d.engines[i].live}
ProcessUnavailable ==
  det'.nprocess = det.nprocess + 1 /\ ~det.initialized
C23_NeverPartiallyInitialized ==
  /\ []((det.pc = "idle" /\ det.ncalls > 0) =>
         (det.initialized <=>
            /\ det.engine # 0
            /\ LiveEngines(det) = {det.engine}
            /\ det.engines[det.engine].built = det.keywords))
  /\ [](Cardinality(LiveEngines(det)) <= 1)
  /\ [][ProcessUnavailable =>
          det'.ppc = "idle" /\ det'.result = <<FALSE, NoName>>]_vars

\* reload_keywords failed to build the engine after releasing the previous
\* one, and process has been called
C23_Witness ==
  /\ det.pc = "idle"
  /\ det.call.op = "reload_keywords" /\ det.ret = "False"
  /\ det.keywords # <<>>
  /\ ~det.initialized /\ det.engine = 0
  /\ Len(det.engines) >= 1 /\ LiveEngines(det) = {}
  /\ det.nprocess > 0 /\ det.ppc = "idle" /\ det.result = <<FALSE, NoName>>

\* C24: reconfiguration excludes inference.  While add_keyword,
\* remove_keyword or reload_keywords is between the release of the old
\* engine and its return, no process call is inside the engine; and the
\* engine a process call is inside is live, not being deleted by the owner
TeardownWindow ==
  {"td_none", "td_flag", "mutate", "in_1", "in_create", "in_set", "ret"}
C24_ReconfigurationExcludesInference ==
  det.ppc = "pr_in" =>
     /\ det.pc \notin TeardownWindow
     /\ det.engines[det.handle].live

\* C25: in the Vosk backend two process calls that report the same keyword
\* are at least the cooldown apart; a match inside the cooldown window is
\* not reported and moves neither the counter nor the last-detection time
\* of its keyword; a process call reports at most one keyword and adds
\* exactly one to at most one counter
ProcessStep == det'.nprocess = det.nprocess + 1
Count(d, kw) == IF kw \in DOMAIN d.detections THEN d.detections[kw] ELSE 0
LastTime(d, kw) ==
  IF kw \in DOMAIN d.last_detection_time THEN d.last_detection_time[kw] ELSE 0
C25_CooldownEnforced ==
  /\ [](\A i \in 1..Len(det.reports), j \in 1..Len(det.reports) :
          (i < j /\ det.reports[i][1] = det.reports[j][1]) =>
             det.reports[j][2] - det.reports[i][2] >= CooldownSeconds)
  /\ [][ProcessStep =>
          \A kw \in ConfiguredNames(det) :
             (det'.now - LastTime(det, kw) < CooldownSeconds) =>
                /\ det'.result # <<TRUE, kw>>
                /\ Count(det', kw) = Count(det, kw)
                /\ LastTime(det', kw) = LastTime(det, kw)]_vars
  /\ [][ProcessStep =>
          /\ Len(det'.reports) <= Len(det.reports) + 1
          /\ Cardinality({kw \in ConfiguredNames(det) :
                            Count(det', kw) # Count(det, kw)}) <= 1
          /\ \A kw \in ConfiguredNames(det) :
                Count(det', kw) \in {Count(det, kw), Count(det, kw) + 1}]_vars

\* C26: with engine="auto", when the file of the first configured keyword
\* has a recognised extension the matching backend is chosen whatever the
\* other arguments are (.ppn: Porcupine; .tflite or .mar: openWakeWord);
\* otherwise the choice is the first of Vosk if installed, Porcupine if an
\* access key is given and it is installed, openWakeWord if installed, Vosk
FirstExtension(a) ==
  IF a.keywords # <<>> /\ "path" \in DOMAIN a.keywords[1]
    THEN a.keywords[1].path[Len(a.keywords[1].path)] ELSE "none"
C26_SelectionByExtension ==
  (wwe.state \notin {"none", "args"} /\ wwe.engine = "auto") =>
     wwe.engine_type =
        CASE FirstExtension(wwe) = ".ppn" -> "porcupine"
          [] FirstExtension(wwe) \in {".tflite", ".mar"} -> "openwakeword"
          [] OTHER -> IF wwe.VOSK_AVAILABLE THEN "vosk"
                      ELSE IF wwe.access_key /\ wwe.PORCUPINE_AVAILABLE
                        THEN "porcupine"
                      ELSE IF wwe.OPENWAKEWORD_AVAILABLE THEN "openwakeword"
                      ELSE "vosk"

\* C27: for every chunk given to the observer of WakeWordEngine, process is
\* called on consecutive slices of exactly frame_length samples, in capture
\* order and without overlap, and when the chunk is done it has been called
\* floor(len(chunk) / frame_length) times: the final partial slice is
\* dropped and never reaches process
C27_FramesOfFrameLength ==
  \A s \in Streams :
     LET chunk == loc[s].audio_data
         frames == loc[s].processed
     IN /\ \A k \in 1..Len(frames) :
             /\ Len(frames[k]) = WWFrameLength
             /\ frames[k] = SubSeq(chunk, (k - 1) * WWFrameLength + 1,
                                          k * WWFrameLength)
        /\ (Top(s) = "ww_for" /\ loc[s].j >= Len(chunk)) =>
              Len(frames) = Len(chunk) \div WWFrameLength

\* a chunk that is not a whole number of frames is done: its full frames
\* were processed and the rest was dropped
C27_Witness ==
  \E s \in Streams :
     /\ Top(s) = "ww_for" /\ loc[s].j >= Len(loc[s].audio_data)
     /\ Len(loc[s].audio_data) % WWFrameLength # 0
     /\ Len(loc[s].processed) >= 1

\* C28: a listening episode that is not cancelled, and in which the
\* transcription gives no text or the synthesis fails, ends with a fallback
\* phrase played; and when the transcription gives no text the response
\* engine is not called
C28_SpokenFallback ==
  \A t \in Threads :
     (Top(t) = "cv_ret" /\ ep[t].started /\ ~ep[t].cancelled) =>
        /\ (ep[t].notext \/ ep[t].synth > ep[t].played) => ep[t].played >= 1
        /\ ep[t].notext => ~ep[t].generated

\* C30: VoskWakeWordDetector.process reports (True, kw) only if the
\* recognizer gave a final result whose text contains the configured
\* keyword kw; for a text that contains no configured keyword, the empty
\* text included, it returns (False, None) and leaves every counter and
\* every last-detection time as it was
C30_ReportsOnlyContainedKeywords ==
  [][(ProcessStep /\ det.backend = "vosk") =>
       /\ det'.result[1] =>
             /\ det'.accepted
             /\ det'.result[2] \in ConfiguredNames(det)
             /\ In(det'.result[2], det'.text)
       /\ (\A kw \in ConfiguredNames(det) : ~In(kw, det'.text)) =>
             /\ det'.result = <<FALSE, NoName>>
             /\ det'.detections = det.detections
             /\ det'.last_detection_time = det.last_detection_time]_vars

\* C29: on each of the three backends, add_keyword(path, sensitivity,
\* name), remove_keyword(name) and reload_keywords(keywords) of
\* WakeWordEngine end with a boolean result, never with an error raised
\* because the detector lacks the method or takes other parameters
C29_BackendsInterchangeable ==
  (det.pc = "idle" /\ det.ncalls > 0) => det.ret \in {"True", "False"}
====
